---- MODULE Spec2Model ----
(***************************************************************************)
(* Connection table, ban store and packet fan-out of the P2P node          *)
(* (src/concordium-node/src/p2p/p2p_node.rs and                            *)
(* src/concordium-node/src/connection/message_handlers.rs).                *)
(***************************************************************************)
EXTENDS Integers, Sequences, FiniteSets, TLC

\* ------------------------------------------------------------------------
\* Bounds of the model
\* ------------------------------------------------------------------------
\* tokens handed out by next_id during one lifetime of the node
MaxToken == 2
\* messages waiting in one connection's pending queue
MaxPending == 2
\* packets queued on one connection before the queue is written out
MaxQueuedPackets == 1

\* the ids of the remote nodes
P2PNodeIds == {1, 2}
\* the id of the local node (self_peer.id)
SelfId == 3
\* Option<P2PNodeId>::None
None == 0
\* remote socket addresses <<ip, port>> the environment connects from / to
Addrs == {<<1, 1>>, <<1, 2>>, <<2, 1>>}
NetworkIds == {1}
PeerTypes == {"Node", "Bootstrapper"}
\* Option<PeerType>::None
NoPeerType == "None"

\* ------------------------------------------------------------------------
\* State
\* ------------------------------------------------------------------------
VARIABLES
    connections,   \* ConnectionHandler.connections : Token -> Connection
    next_id,       \* ConnectionHandler.next_id
    kvs,           \* the keys of the "bans" store of P2PNode.kvs
    config,        \* P2PNode.config and self_peer.peer_type
    last,          \* the operation that ran last, with its inputs
    writer,        \* sending end of a connection: pending_messages and low_level
    socket,        \* the bytes in flight on the TCP stream of that connection
    reader,        \* receiving end: the ConnectionLowLevel that reads the stream
    replies,       \* the bytes in flight in the other direction of that stream
    trace,         \* the messages queued, encrypted and delivered so far
    router,        \* deduplication queues, inbound consensus queues, catch-up peers
    poll,          \* the poll thread of spawn and the flag set by close
    buckets,       \* Buckets.buckets[0] : the known peers
    now            \* the clock that get_current_stamp reads

\* the variables of one connection's byte stream
stream_vars == <<writer, socket, reader, replies, trace>>

\* the variables that the operations on the connection table leave alone
\* the variables of the consensus router and of the poll thread
service_vars == <<router, poll>>

\* the peer directory and the clock
directory_vars == <<buckets, now>>

off_table_vars == <<stream_vars, service_vars, directory_vars>>

vars == <<connections, next_id, kvs, config, last, writer, socket, reader, replies,
          trace, router, poll, buckets, now>>

\* SERVER token is 0; connection tokens start at 1
SERVER == 0

\* ------------------------------------------------------------------------
\* Helpers on sets and sequences
\* ------------------------------------------------------------------------
RECURSIVE SetToSeq(_)
SetToSeq(S) ==
    IF S = {} THEN <<>>
    ELSE LET x == CHOOSE y \in S : TRUE IN <<x>> \o SetToSeq(S \ {x})

Range(s) == {s[i] : i \in DOMAIN s}

\* a map without one key (HashMap::remove)
Without(conns, token) == [t \in DOMAIN conns \ {token} |-> conns[t]]

\* a map restricted to the keys in keep (HashMap::retain)
Retain(conns, keep) == [t \in DOMAIN conns \cap keep |-> conns[t]]

\* a map with one more entry (HashMap::insert)
Insert(conns, token, conn) ==
    [t \in DOMAIN conns \cup {token} |-> IF t = token THEN conn ELSE conns[t]]

\* ------------------------------------------------------------------------
\* One connection's byte stream: the state after the noise handshake
\* ------------------------------------------------------------------------
\* socket_read_size and socket_write_size of the configuration
SocketReadSize == 3
SocketWriteSize == 2
\* bytes the TCP stream holds before a write returns WouldBlock
MaxInFlight == 4
\* messages handed to one connection
MaxMessages == 2

\* mem::size_of::<PayloadSize>()
PAYLOAD_SIZE == 4
\* the sizes of a noise message and of its tag, scaled down from 65535 and 16
NOISE_MAX_MESSAGE_LEN == 3
MAC_LENGTH == 1
NOISE_MAX_PAYLOAD_LEN == NOISE_MAX_MESSAGE_LEN - MAC_LENGTH
HANDSHAKE_SIZE_LIMIT == 1024
\* the largest frame accepted after the handshake: 20 MiB
PROTOCOL_MAX_MESSAGE_SIZE == 20971520
\* the length of a public key of the handshake, scaled down from 32
DHLEN == 1
\* `let pad = 16` of message A, scaled down
HandshakePad == 1
\* the preshared proof carried by message A, scaled down to one byte
PSK == <<7>>
\* the payload of produce_handshake_request
HandshakeRequest == <<5>>

\* SocketBuffer::new
SocketBuffer_new(socket_read_size) ==
    [buf |-> [i \in 1..socket_read_size |-> 0], offset |-> 0, remaining |-> 0]

NewSocketBuffer == SocketBuffer_new(SocketReadSize)

\* IncomingMessage::default()
NewIncomingMessage == [size_bytes |-> <<>>, pending_bytes |-> 0, message |-> <<>>]

\* a noise session whose XX handshake is complete (messages A, B and C)
EstablishedSession(is_initiator) ==
    [is_initiator |-> is_initiator, message_count |-> 3, nonce |-> 0]

\* NoiseSession::init_session: no handshake message has been sent or received
init_session(is_initiator) ==
    [is_initiator |-> is_initiator, message_count |-> 0, nonce |-> 0]

\* the end that opened the connection: Connection.pending_messages, the
\* ConnectionLowLevel, and whether a read has failed
NewWriter ==
    [pending_messages |-> {},
     instant |-> 0,
     noise_session |-> EstablishedSession(TRUE),
     output_queue |-> <<>>,
     socket_buffer |-> NewSocketBuffer,
     incoming_msg |-> NewIncomingMessage,
     failed |-> FALSE]

\* the end that accepted it: the ConnectionLowLevel, and whether a read has
\* failed
NewReader ==
    [noise_session |-> EstablishedSession(FALSE),
     output_queue |-> <<>>,
     socket_buffer |-> NewSocketBuffer,
     incoming_msg |-> NewIncomingMessage,
     failed |-> FALSE]

\* what has gone through the stream: the messages queued, written and
\* delivered, the bytes put on the wire and appended to the output queue, the
\* bytes the reader took from the socket and those it consumed, and the
\* handshake messages each end accepted
NewTrace ==
    [enqueued |-> <<>>, drained |-> 0, written |-> <<>>, wire |-> <<>>, received |-> <<>>,
     queued |-> <<>>, taken |-> <<>>, consumed |-> <<>>, handshake |-> <<>>]

StreamInit ==
    /\ writer = NewWriter
    /\ socket = <<>>
    /\ reader = NewReader
    /\ replies = <<>>
    /\ trace = NewTrace

\* sizes of the deduplication queues and of the inbound consensus queues
DedupSizeLong == 2
DedupSizeShort == 1
InboundQueueCapacity == 1
\* network messages processed during one run
MaxReceived == 2

\* DeduplicationQueues::new, the empty CALLBACK_QUEUE and the counters of
\* node.stats; the catch-up status of the peers is set by the run
NewRouter ==
    [dedup_long |-> <<>>,
     dedup_short |-> <<>>,
     high_priority |-> <<>>,
     low_priority |-> <<>>,
     stats |-> [inbound_high_priority_consensus |-> 0,
                inbound_low_priority_consensus |-> 0,
                inbound_high_priority_consensus_drops |-> 0,
                inbound_low_priority_consensus_drops |-> 0],
     received |-> 0,
     peers |-> <<>>,
     catch_up_stamp |-> 0,
     no_rebroadcast_consensus_validation |-> FALSE]

\* the poll thread before spawn
NewPoll ==
    [is_terminated |-> FALSE, thread |-> "NotSpawned", server_event |-> FALSE,
     iterations_terminated |-> 0, joined |-> FALSE]

ServiceInit ==
    /\ router = NewRouter
    /\ poll = NewPoll

\* Buckets::new: one empty bucket; the clock starts at 0
DirectoryInit ==
    /\ buckets = {}
    /\ now = 0

\* the initial value of the variables the connection table does not use
OffTableInit == StreamInit /\ ServiceInit /\ DirectoryInit

\* ------------------------------------------------------------------------
\* BannedNode and the ban store
\* ------------------------------------------------------------------------
ById(id) == [tag |-> "ById", v |-> id]
ByAddr(ip) == [tag |-> "ByAddr", v |-> ip]
\* the entries the model bans and unbans
BannedNodes == {ById(1), ByAddr(1)}

\* BannedNode::serial: the store key is the variant's tag followed by its payload
serial(peer) == IF peer.tag = "ById" THEN <<0, peer.v>> ELSE <<1, peer.v>>

is_banned(peer) == serial(peer) \in kvs

\* ------------------------------------------------------------------------
\* Connection
\* ------------------------------------------------------------------------
\* Connection::new with the RemotePeer built by accept / connect
NewConnection(token, addr, peer_type) ==
    [token |-> token,
     remote_id |-> None,
     addr |-> addr,
     peer_external_port |-> addr[2],
     peer_type |-> peer_type,
     status |-> "PreHandshake",
     remote_end_networks |-> {},
     pending_messages |-> <<>>,
     failed_pkts |-> 0]

is_post_handshake(conn) == conn.status = "PostHandshake"

\* promote_to_post_handshake(id, port): one update of remote_peer and status
promote_to_post_handshake(conn, id, port) ==
    [conn EXCEPT !.remote_id = id,
                 !.peer_external_port = port,
                 !.status = "PostHandshake"]

add_remote_end_networks(conn, networks) ==
    [conn EXCEPT !.remote_end_networks = @ \cup networks]

\* the messages a connection queues
Msg(kind) == [kind |-> kind, network |-> 0, target |-> None, exclude |-> {}]

\* async_send: the payload joins the connection's pending queue
async_send(conn, msg) ==
    [conn EXCEPT !.pending_messages = Append(@, msg)]

HasRoom(conn, n) == Len(conn.pending_messages) + n <= MaxPending

\* ------------------------------------------------------------------------
\* P2PNode: construction, lookups
\* ------------------------------------------------------------------------
\* self_peer.addr
SelfAddr == <<3, 1>>

\* the configurations the node is started with
Config(peer_type, percentage, max_allowed_nodes) ==
    [peer_type |-> peer_type,
     relay_broadcast_percentage |-> percentage,
     max_allowed_nodes |-> max_allowed_nodes,
     hard_connection_limit |-> None,
     socket_read_size |-> SocketReadSize,
     socket_write_size |-> SocketWriteSize]

ConfigSpace ==
    {Config("Node", 100, 1), Config("Node", 100, MaxToken),
     Config("Bootstrapper", 100, MaxToken)}

\* clear_bans: the store is emptied and the write committed
clear_bans(store) == {}

\* P2PNode::new: an empty connection table, next_id = 1, and the ban store of
\* the data directory, which the constructor resets
Init ==
    /\ connections = <<>>
    /\ next_id = 1
    /\ kvs = clear_bans({})
    /\ config \in ConfigSpace
    /\ last = [op |-> "new"]
    /\ OffTableInit

\* a node shut down and constructed again on the same data directory
P2PNode_new ==
    /\ connections' = <<>>
    /\ next_id' = 1
    /\ kvs' = clear_bans(kvs)
    /\ UNCHANGED config
    /\ UNCHANGED off_table_vars
    /\ last' = [op |-> "new"]

\* get_peer_stats: the post-handshake connections of the given remote type
get_peer_stats(conns, peer_type) ==
    {t \in DOMAIN conns :
        /\ is_post_handshake(conns[t])
        /\ (peer_type = NoPeerType \/ peer_type = conns[t].peer_type)}

\* find_connection_by_id: the connections `find` may stop at; the HashMap's
\* iteration order decides which one it is
find_connection_by_id(conns, id) ==
    {t \in DOMAIN conns : conns[t].remote_id = id}

find_connections_by_ip(conns, ip) ==
    {t \in DOMAIN conns : conns[t].addr[1] = ip}

remove_connection(conns, token) ==
    IF token \in DOMAIN conns THEN Without(conns, token) ELSE conns

add_connection(conns, conn) == Insert(conns, conn.token, conn)

\* ------------------------------------------------------------------------
\* accept and connect
\* ------------------------------------------------------------------------
\* the early returns of accept without the test of hard_connection_limit
accept_rejected_duplicate(conns, addr) ==
    \E t \in DOMAIN conns : conns[t].addr = addr

accept_rejected(conns, addr) ==
    \/ /\ config.peer_type = "Node"
       /\ config.hard_connection_limit # None
       /\ Cardinality(DOMAIN conns) >= config.hard_connection_limit
    \/ \E t \in DOMAIN conns : conns[t].addr = addr

\* accept: the connection table, next_id and the record of the call
accept_handler(addr) ==
    /\ next_id <= MaxToken
    /\ IF accept_rejected(connections, addr)
       THEN UNCHANGED <<connections, next_id>>
       ELSE /\ connections' =
                add_connection(connections, NewConnection(next_id, addr, "Node"))
            /\ next_id' = next_id + 1
    /\ last' = [op |-> "accept", addr |-> addr,
                rejected |-> accept_rejected(connections, addr)]
    /\ UNCHANGED <<kvs, config>>

accept(addr) ==
    /\ accept_handler(addr)
    /\ UNCHANGED off_table_vars

\* the early returns of connect; reachable is false when the address is marked
\* unreachable or TcpStream::connect fails
connect_rejected(conns, peer_type, addr, peer_id_opt, reachable) ==
    \/ /\ peer_type = "Node"
       /\ Cardinality(get_peer_stats(conns, "Node")) > config.max_allowed_nodes
    \/ SelfAddr = addr
    \/ peer_id_opt = SelfId
    \/ \E t \in DOMAIN conns :
            \/ conns[t].addr = addr
            \/ (peer_id_opt # None /\ conns[t].remote_id = peer_id_opt)
    \/ ~reachable

\* the connection table after connect
connect_table(conns, token, peer_type, addr, peer_id_opt, reachable) ==
    IF connect_rejected(conns, peer_type, addr, peer_id_opt, reachable)
    THEN conns
    ELSE add_connection(conns, NewConnection(token, addr, peer_type))

connect(peer_type, addr, peer_id_opt, reachable) ==
    /\ next_id <= MaxToken
    /\ connections' =
          connect_table(connections, next_id, peer_type, addr, peer_id_opt, reachable)
    /\ next_id' = IF connections' = connections THEN next_id ELSE next_id + 1
    /\ last' = [op |-> "connect"]
    /\ UNCHANGED <<kvs, config>>
    /\ UNCHANGED off_table_vars

\* ------------------------------------------------------------------------
\* ban_node, unban_node
\* ------------------------------------------------------------------------
\* Option<Arc<Connection>> of a lookup: one of the matches, or None
FindResults(matches) == IF matches = {} THEN {None} ELSE matches

\* the tokens ban_node removes: the one connection found by id, or every
\* connection of the address
ban_node_removes(conns, peer, found) ==
    IF peer.tag = "ById"
    THEN {found} \cap DOMAIN conns
    ELSE find_connections_by_ip(conns, peer.v)

ban_node(peer) ==
    /\ kvs' = kvs \cup {serial(peer)}
    /\ \E found \in (IF peer.tag = "ById"
                     THEN FindResults(find_connection_by_id(connections, peer.v))
                     ELSE {None}) :
          connections' =
              Retain(connections,
                     DOMAIN connections \ ban_node_removes(connections, peer, found))
    /\ last' = [op |-> "ban_node", peer |-> peer]
    /\ UNCHANGED <<next_id, config>>
    /\ UNCHANGED off_table_vars

unban_node(peer) ==
    /\ kvs' = kvs \ {serial(peer)}
    /\ last' = [op |-> "unban_node"]
    /\ UNCHANGED <<connections, next_id, config>>
    /\ UNCHANGED off_table_vars

\* ------------------------------------------------------------------------
\* Connection::handle_incoming_message and its handlers
\* ------------------------------------------------------------------------
\* handle_handshake_req on connection token: the table afterwards
handle_handshake_req(conns, token, remote_node_id, remote_port, networks) ==
    IF is_banned(ById(remote_node_id))
    THEN remove_connection(conns, token)
    ELSE LET promoted ==
                 add_remote_end_networks(
                     promote_to_post_handshake(conns[token], remote_node_id, remote_port),
                     networks)
             answered == async_send(promoted, Msg("HandshakeResponse"))
         IN [conns EXCEPT ![token] =
                IF config.peer_type = "Bootstrapper"
                THEN async_send(answered, Msg("PeerList"))
                ELSE answered]

\* handle_handshake_resp on connection token: the table afterwards
handle_handshake_resp(conns, token, remote_node_id, remote_port, networks) ==
    [conns EXCEPT ![token] =
        add_remote_end_networks(
            promote_to_post_handshake(async_send(conns[token], Msg("Ping")),
                                      remote_node_id, remote_port),
            networks)]

RecvHandshakeReq(token, id, port, networks) ==
    /\ token \in DOMAIN connections
    /\ HasRoom(connections[token], 2)
    /\ connections' = handle_handshake_req(connections, token, id, port, networks)
    /\ last' = [op |-> "handle_handshake_req"]
    /\ UNCHANGED <<next_id, kvs, config>>
    /\ UNCHANGED off_table_vars

RecvHandshakeResp(token, id, port, networks) ==
    /\ token \in DOMAIN connections
    /\ HasRoom(connections[token], 1)
    /\ connections' = handle_handshake_resp(connections, token, id, port, networks)
    /\ last' = [op |-> "handle_handshake_resp"]
    /\ UNCHANGED <<next_id, kvs, config>>
    /\ UNCHANGED off_table_vars

\* process_message on a connection that has not completed its handshake: a
\* message other than Handshake is not handled and the connection is closed
RecvBeforeHandshake(token) ==
    /\ token \in DOMAIN connections
    /\ ~is_post_handshake(connections[token])
    /\ connections' = remove_connection(connections, token)
    /\ last' = [op |-> "process_message"]
    /\ UNCHANGED <<next_id, kvs, config>>
    /\ UNCHANGED off_table_vars

\* NetworkRequest::BanNode received from a peer: handler().ban_node
RecvBanNode(token, peer) ==
    /\ token \in DOMAIN connections
    /\ is_post_handshake(connections[token])
    /\ ban_node(peer)

\* handle_unban: a peer may not lift its own ban
is_self_unban(conn, peer) ==
    IF peer.tag = "ById" THEN peer.v = conn.remote_id ELSE peer.v = conn.addr[1]

RecvUnbanNode(token, peer) ==
    /\ token \in DOMAIN connections
    /\ is_post_handshake(connections[token])
    /\ ~is_self_unban(connections[token], peer)
    /\ unban_node(peer)

\* send_pending_messages: every pending message is popped and written out
send_pending_messages(token) ==
    /\ token \in DOMAIN connections
    /\ connections[token].pending_messages # <<>>
    /\ connections' = [connections EXCEPT ![token].pending_messages = <<>>]
    /\ last' = [op |-> "send_pending_messages"]
    /\ UNCHANGED <<next_id, kvs, config>>
    /\ UNCHANGED off_table_vars

\* ------------------------------------------------------------------------
\* connection_housekeeping
\* ------------------------------------------------------------------------
\* the sort key without Reverse: of equal ids the lower token sorts first
housekeeping_key_ascending(a, b) ==
    \/ a.remote_id < b.remote_id
    \/ (a.remote_id = b.remote_id /\ a.token < b.token)

\* sort_by_key(|conn| (conn.remote_id(), Reverse(conn.token))): a sorts before b
housekeeping_key_less(a, b) ==
    \/ a.remote_id < b.remote_id
    \/ (a.remote_id = b.remote_id /\ a.token > b.token)

\* a dedup that drops nothing
dedup_keeps_all(s) == s

\* Vec::dedup_by_key(|conn| conn.remote_id()): of consecutive elements with the
\* same key the first is kept
RECURSIVE dedup_by_key(_)
dedup_by_key(s) ==
    IF Len(s) <= 1 THEN s
    ELSE LET rest == dedup_by_key(Tail(s))
         IN IF s[1].remote_id = s[2].remote_id
            THEN <<s[1]>> \o Tail(rest)
            ELSE <<s[1]>> \o rest

\* "deduplicate by P2PNodeId": the table that the first retain leaves
deduplicate_by_id(conns) ==
    LET post == {conns[t] : t \in {u \in DOMAIN conns : is_post_handshake(conns[u])}}
        sorted == SortSeq(SetToSeq(post), housekeeping_key_less)
        kept == dedup_by_key(sorted)
    IN Retain(conns, {c.token : c \in Range(kept)})

\* config::MAX_FAILED_PACKETS_ALLOWED, scaled down from 50
MAX_FAILED_PACKETS_ALLOWED == 2

\* The latency and the clock that the three predicates read are inputs:
\* faulty holds the tokens whose latency is at or over max_latency, expired
\* those whose last_seen is older than the keep-alive that applies.
is_conn_faulty(conn, faulty) ==
    conn.failed_pkts >= MAX_FAILED_PACKETS_ALLOWED \/ conn.token \in faulty

is_conn_inactive(conn, expired) ==
    is_post_handshake(conn) /\ conn.token \in expired

is_conn_without_handshake(conn, expired) ==
    ~is_post_handshake(conn) /\ conn.token \in expired

\* "Kill faulty and inactive connections"
kill_faulty_and_inactive(conns, faulty, expired) ==
    Retain(conns,
           {t \in DOMAIN conns :
               ~(\/ is_conn_faulty(conns[t], faulty)
                 \/ is_conn_inactive(conns[t], expired)
                 \/ is_conn_without_handshake(conns[t], expired))})

\* the number of connections the random drop closes
excess_peers(conns) ==
    LET peer_count == Cardinality(get_peer_stats(conns, "Node"))
    IN IF config.peer_type = "Node" /\ peer_count > config.max_allowed_nodes
       THEN peer_count - config.max_allowed_nodes
       ELSE 0

\* attempt_bootstrap: connect(Bootstrapper, addr, None) to each resolved node;
\* every connection made takes the next token
RECURSIVE attempt_bootstrap(_, _, _)
attempt_bootstrap(conns, token, nodes) ==
    IF nodes = <<>> THEN conns
    ELSE LET after == connect_table(conns, token, "Bootstrapper", Head(nodes),
                                    None, TRUE)
         IN attempt_bootstrap(after, IF after = conns THEN token ELSE token + 1,
                              Tail(nodes))

\* the tokens of the post-handshake connections that share their remote id with
\* another post-handshake connection
duplicates(conns) ==
    {t \in DOMAIN conns :
        /\ is_post_handshake(conns[t])
        /\ \E u \in DOMAIN conns \ {t} :
              is_post_handshake(conns[u]) /\ conns[u].remote_id = conns[t].remote_id}

\* nodes: the bootstrap addresses resolved when re-bootstrapping is due (none
\* when it is not due or the local peer is a bootstrapper)
connection_housekeeping_handler(faulty, expired, nodes) ==
    /\ nodes # <<>> => (next_id + Len(nodes) <= MaxToken + 1 /\ config.peer_type = "Node")
    /\ LET deduped == deduplicate_by_id(connections)
           alive == kill_faulty_and_inactive(deduped, faulty, expired)
       IN \E to_drop \in {S \in SUBSET DOMAIN alive :
                              Cardinality(S) = excess_peers(alive)} :
             /\ connections' =
                    attempt_bootstrap(Retain(alive, DOMAIN alive \ to_drop), next_id, nodes)
             /\ last' = [op |-> "connection_housekeeping",
                         duplicates |-> duplicates(connections),
                         faulty |-> faulty, expired |-> expired, to_drop |-> to_drop]
    /\ next_id' = next_id + Cardinality({t \in DOMAIN connections' : t >= next_id})
    /\ UNCHANGED <<kvs, config>>

connection_housekeeping(faulty, expired, nodes) ==
    /\ connection_housekeeping_handler(faulty, expired, nodes)
    /\ UNCHANGED off_table_vars

\* ------------------------------------------------------------------------
\* The node
\* ------------------------------------------------------------------------
\* the addresses the bootstrap server resolves to
BootstrapAddrs == {<<2, 1>>}
\* the remote_port and the networks a Handshake advertises
HandshakePorts == {1}
HandshakeNetworks == {NetworkIds}

\* ------------------------------------------------------------------------
\* process_network_packet
\* ------------------------------------------------------------------------
\* the NetworkMessage that carries a packet
Packet(target, dont_relay_to, network_id) ==
    [kind |-> "Packet", network |-> network_id, target |-> target,
     exclude |-> dont_relay_to]

\* send_over_all_connections: data is queued on every post-handshake
\* connection that conn_filter lets through; filtered holds the tokens of the
\* connections for which conn_filter is true
send_over_all_connections(conns, data, filtered) ==
    [t \in DOMAIN conns |->
        IF is_post_handshake(conns[t]) /\ t \in filtered
        THEN async_send(conns[t], data)
        ELSE conns[t]]

\* f64::floor(f64::from(len) * relay_broadcast_percentage), the percentage
\* held as hundredths
peers_to_take(len, percentage) == (len * percentage) \div 100

\* the values peers_to_skip can take for a broadcast: the dont_relay_to list,
\* or, below 100 %, the ids of peers_to_take connections drawn at random from
\* the Node peers that are not in dont_relay_to
peers_to_skip_choices(conns, dont_relay_to) ==
    IF config.relay_broadcast_percentage < 100
    THEN LET peers == {t \in get_peer_stats(conns, "Node") :
                          conns[t].remote_id \notin dont_relay_to}
             take == peers_to_take(Cardinality(peers),
                                   config.relay_broadcast_percentage)
         IN {{conns[t].remote_id : t \in chosen} :
                chosen \in {S \in SUBSET peers : Cardinality(S) = take}}
    ELSE {dont_relay_to}

\* a filter that does not look at the remote peer's type
is_valid_target_of_any_type(conn, sender, peers_to_skip, network_id) ==
    /\ conn.remote_id # sender
    /\ conn.remote_id \notin peers_to_skip
    /\ network_id \in conn.remote_end_networks

is_valid_broadcast_target(conn, sender, peers_to_skip, network_id) ==
    /\ conn.peer_type # "Bootstrapper"
    /\ conn.remote_id # sender
    /\ conn.remote_id \notin peers_to_skip
    /\ network_id \in conn.remote_end_networks

\* the filter of a direct message
is_direct_target(conn, target_id) == conn.remote_id = target_id

\* process_network_packet for a BroadcastedMessage(dont_relay_to)
process_broadcast_packet(conns, source_id, dont_relay_to, network_id, peers_to_skip) ==
    send_over_all_connections(
        conns, Packet(None, dont_relay_to, network_id),
        {t \in DOMAIN conns :
            is_valid_broadcast_target(conns[t], source_id, peers_to_skip, network_id)})

\* process_network_packet for a DirectMessage(target_id)
process_direct_packet(conns, source_id, target_id, network_id) ==
    send_over_all_connections(
        conns, Packet(target_id, {}, network_id),
        {t \in DOMAIN conns : is_direct_target(conns[t], target_id)})

AllHaveRoom ==
    \A t \in DOMAIN connections :
        Len(connections[t].pending_messages) < MaxQueuedPackets

send_broadcast_message(source_id, dont_relay_to, network_id) ==
    /\ AllHaveRoom
    /\ \E peers_to_skip \in peers_to_skip_choices(connections, dont_relay_to) :
          connections' =
              process_broadcast_packet(connections, source_id, dont_relay_to,
                                       network_id, peers_to_skip)
    /\ last' = [op |-> "send_broadcast_message", source_id |-> source_id,
                dont_relay_to |-> dont_relay_to, network_id |-> network_id]
    /\ UNCHANGED <<next_id, kvs, config>>
    /\ UNCHANGED off_table_vars

send_direct_message(source_id, target_id, network_id) ==
    /\ AllHaveRoom
    /\ connections' =
          process_direct_packet(connections, source_id, target_id, network_id)
    /\ last' = [op |-> "send_direct_message", source_id |-> source_id,
                target_id |-> target_id, network_id |-> network_id]
    /\ UNCHANGED <<next_id, kvs, config>>
    /\ UNCHANGED off_table_vars

Next ==
    \/ P2PNode_new
    \/ \E addr \in Addrs : accept(addr)
    \/ \E peer_type \in PeerTypes, addr \in Addrs \cup {SelfAddr},
          peer_id_opt \in {None, 1, SelfId}, reachable \in BOOLEAN :
          connect(peer_type, addr, peer_id_opt, reachable)
    \/ \E peer \in BannedNodes : ban_node(peer)
    \/ \E peer \in BannedNodes : unban_node(peer)
    \/ \E token \in DOMAIN connections, id \in P2PNodeIds, port \in HandshakePorts,
          networks \in HandshakeNetworks :
          RecvHandshakeReq(token, id, port, networks)
    \/ \E token \in DOMAIN connections, id \in P2PNodeIds, port \in HandshakePorts,
          networks \in HandshakeNetworks :
          RecvHandshakeResp(token, id, port, networks)
    \/ \E token \in DOMAIN connections : RecvBeforeHandshake(token)
    \/ \E token \in DOMAIN connections, peer \in BannedNodes : RecvBanNode(token, peer)
    \/ \E token \in DOMAIN connections, peer \in BannedNodes : RecvUnbanNode(token, peer)
    \/ \E token \in DOMAIN connections : send_pending_messages(token)
    \/ \E expired \in SUBSET DOMAIN connections :
       \E faulty \in SUBSET (DOMAIN connections \ expired),
          nodes \in {<<>>} \cup {<<a>> : a \in BootstrapAddrs} :
          connection_housekeeping(faulty, expired, nodes)

Spec == Init /\ [][Next]_vars

\* ------------------------------------------------------------------------
\* Housekeeping on an established table
\* ------------------------------------------------------------------------
\* The fields a connection of the table can hold: a connection that has not
\* completed its handshake, or one promoted with a remote id and networks.
ConnectionKinds ==
    [status : {"PreHandshake"}, peer_type : PeerTypes, remote_id : {None},
     networks : {{}}]
    \cup [status : {"PostHandshake"}, peer_type : PeerTypes, remote_id : P2PNodeIds,
          networks : SUBSET NetworkIds]

\* the connection with that token and those fields; no two connections of a
\* table share their address
EstablishedConnection(token, kind) ==
    LET conn == NewConnection(token, <<1, token>>, kind.peer_type)
    IN IF kind.status = "PreHandshake" THEN conn
       ELSE add_remote_end_networks(
                promote_to_post_handshake(conn, kind.remote_id, 1), kind.networks)

\* tokens are handed out in increasing order
NextIdAfter(tokens) ==
    IF tokens = {} THEN 1 ELSE 1 + CHOOSE t \in tokens : \A u \in tokens : u <= t

InitHousekeeping ==
    /\ \E tokens \in SUBSET (1..MaxToken) :
       \E kinds \in [tokens -> ConnectionKinds] :
          /\ connections = [t \in tokens |-> EstablishedConnection(t, kinds[t])]
          /\ next_id = NextIdAfter(tokens)
    /\ kvs = {}
    /\ config \in ConfigSpace
    /\ last = [op |-> "new"]
    /\ OffTableInit

NextHousekeeping ==
    \E expired \in SUBSET DOMAIN connections :
    \E faulty \in SUBSET (DOMAIN connections \ expired),
       nodes \in {<<>>} \cup {<<a>> : a \in BootstrapAddrs} :
       connection_housekeeping(faulty, expired, nodes)

SpecHousekeeping == InitHousekeeping /\ [][NextHousekeeping]_vars

\* ------------------------------------------------------------------------
\* Packets sent over an established table
\* ------------------------------------------------------------------------
ConnectionKindSeq == SetToSeq(ConnectionKinds)

\* process_network_packet does not read a connection's token: of the tables
\* that differ only in which token holds which connection, one is drawn
InitPacket ==
    /\ \E n \in 0..MaxToken :
       \E kinds \in [1..n -> DOMAIN ConnectionKindSeq] :
          /\ \A t \in 1..n : t < n => kinds[t] <= kinds[t + 1]
          /\ connections =
                [t \in 1..n |-> EstablishedConnection(t, ConnectionKindSeq[kinds[t]])]
          /\ next_id = n + 1
    /\ kvs = {}
    /\ config \in {Config("Node", 50, MaxToken), Config("Node", 100, MaxToken)}
    /\ last = [op |-> "new"]
    /\ OffTableInit

\* the sender of a packet: a peer (a packet that is relayed) or the node itself
PacketSources == P2PNodeIds \cup {SelfId}

NextPacket ==
    \/ \E source_id \in PacketSources, dont_relay_to \in SUBSET P2PNodeIds,
          network_id \in NetworkIds :
          send_broadcast_message(source_id, dont_relay_to, network_id)
    \/ \E target_id \in P2PNodeIds, network_id \in NetworkIds :
          send_direct_message(SelfId, target_id, network_id)

SpecPacket == InitPacket /\ [][NextPacket]_vars

\* ------------------------------------------------------------------------
\* Claims on the handshake and on bans
\* ------------------------------------------------------------------------
\* C1: once a connection is post-handshake its remote id is set and is the
\* same in every later state, and its status does not return to PreHandshake,
\* whatever messages arrive on it, a further Handshake included.
C1_RemoteIdNeverChanges ==
    [][\A t \in DOMAIN connections \cap DOMAIN connections' :
          is_post_handshake(connections[t]) =>
              /\ connections[t].remote_id # None
              /\ connections'[t].remote_id = connections[t].remote_id
              /\ connections'[t].status # "PreHandshake"]_vars

\* C2: after ban_node(peer) the peer is banned and the table holds no
\* connection with the banned remote id, or with the banned IP address.
C2_BanRemovesEveryConnection ==
    last.op = "ban_node" =>
        /\ is_banned(last.peer)
        /\ \A t \in DOMAIN connections :
              IF last.peer.tag = "ById"
              THEN connections[t].remote_id # last.peer.v
              ELSE connections[t].addr[1] # last.peer.v

\* C3: in every reachable state no connection of the table has a banned
\* remote id or a banned remote IP address.
C3_NoBannedConnection ==
    \A t \in DOMAIN connections :
        /\ ~is_banned(ById(connections[t].remote_id))
        /\ ~is_banned(ByAddr(connections[t].addr[1]))

\* C4: a ban survives a restart: every key of the ban store is still in the
\* store of the node constructed on the same data directory.
C4_BansSurviveRestart ==
    [][last'.op = "new" => kvs \subseteq kvs']_vars

\* ------------------------------------------------------------------------
\* Claims on connection_housekeeping
\* ------------------------------------------------------------------------
PostHandshakeWithId(conns, id) ==
    {t \in DOMAIN conns : is_post_handshake(conns[t]) /\ conns[t].remote_id = id}

\* C5: after connection_housekeeping, for every NodeId at most one
\* post-handshake connection with that remote id is in the table.
C5_OnePerNodeId ==
    last.op = "connection_housekeeping" =>
        \A id \in P2PNodeIds : Cardinality(PostHandshakeWithId(connections, id)) <= 1

\* housekeeping ran on a table with duplicates and one of them is still there
C5_Witness ==
    /\ last.op = "connection_housekeeping"
    /\ last.duplicates # {}
    /\ \E t \in last.duplicates : t \in DOMAIN connections

\* C6 (as the code has it): of several post-handshake connections with one
\* remote NodeId, the one that survives connection_housekeeping is the one
\* with the highest token; every connection with that id and a lower token is
\* removed.
C6_HighestTokenSurvives ==
    [][last'.op = "connection_housekeeping" =>
          \A t \in DOMAIN connections \cap DOMAIN connections' :
              is_post_handshake(connections[t]) =>
                  \A u \in PostHandshakeWithId(connections, connections[t].remote_id) :
                      u <= t]_vars

\* housekeeping removed a duplicate and kept one with a higher token
C6_Witness ==
    /\ last.op = "connection_housekeeping"
    /\ \E t \in last.duplicates \cap DOMAIN connections :
       \E u \in last.duplicates \ DOMAIN connections : u < t

\* C6 as stated: the survivor is the connection with the lowest token.
C6_LowestTokenSurvives ==
    [][last'.op = "connection_housekeeping" =>
          \A t \in DOMAIN connections \cap DOMAIN connections' :
              is_post_handshake(connections[t]) =>
                  \A u \in PostHandshakeWithId(connections, connections[t].remote_id) :
                      t <= u]_vars

\* ------------------------------------------------------------------------
\* Claims on process_network_packet
\* ------------------------------------------------------------------------
\* the connections the step queued something on
Receivers == {t \in DOMAIN connections \cap DOMAIN connections' :
                 connections'[t].pending_messages # connections[t].pending_messages}

\* the eligible set of a broadcast from source_id with exclude list
\* dont_relay_to on network_id
Eligible(conns, source_id, dont_relay_to, network_id) ==
    {t \in DOMAIN conns :
        /\ conns[t].status = "PostHandshake"
        /\ conns[t].peer_type # "Bootstrapper"
        /\ conns[t].remote_id \notin dont_relay_to \cup {source_id}
        /\ network_id \in conns[t].remote_end_networks}

\* C7: with relay_broadcast_percentage = 1 a broadcast is queued exactly once
\* on each connection that is post-handshake, not of a Bootstrapper, whose
\* remote id is neither the source nor in the exclude list and whose networks
\* contain the packet's network, and on no other connection.
C7_BroadcastReachesEligible ==
    [][(last'.op = "send_broadcast_message"
            /\ config.relay_broadcast_percentage = 100) =>
          /\ DOMAIN connections' = DOMAIN connections
          /\ \A t \in DOMAIN connections :
                connections'[t].pending_messages =
                    IF t \in Eligible(connections, last'.source_id,
                                      last'.dont_relay_to, last'.network_id)
                    THEN Append(connections[t].pending_messages,
                                Packet(None, last'.dont_relay_to, last'.network_id))
                    ELSE connections[t].pending_messages]_vars

\* a broadcast at 100 % was queued on one connection and kept from a
\* post-handshake connection of the same network that the exclude list names
C7_Witness ==
    /\ last.op = "send_broadcast_message"
    /\ config.relay_broadcast_percentage = 100
    /\ \E t \in DOMAIN connections :
          /\ connections[t].pending_messages # <<>>
          /\ connections[t].remote_id \notin last.dont_relay_to
    /\ \E u \in DOMAIN connections :
          /\ is_post_handshake(connections[u])
          /\ connections[u].remote_id \in last.dont_relay_to
          /\ last.network_id \in connections[u].remote_end_networks
          /\ connections[u].pending_messages = <<>>

\* C8: for every relay_broadcast_percentage a broadcast is never queued on a
\* connection whose remote id is the packet's source or in its exclude list.
C8_NeverToSourceOrExcluded ==
    [][last'.op = "send_broadcast_message" =>
          \A t \in Receivers :
              connections[t].remote_id \notin last'.dont_relay_to \cup {last'.source_id}]_vars

\* C9: with relay_broadcast_percentage = p < 1 and k eligible connections the
\* broadcast is queued on floor(p * k) connections.
C9_FractionOfEligible ==
    [][(last'.op = "send_broadcast_message"
            /\ config.relay_broadcast_percentage < 100) =>
          Cardinality(Receivers) =
              (Cardinality(Eligible(connections, last'.source_id,
                                    last'.dont_relay_to, last'.network_id))
                  * config.relay_broadcast_percentage) \div 100]_vars

\* C10: a Direct packet with target t is queued on at most one connection,
\* a post-handshake connection with remote id t.
C10_DirectToAtMostOne ==
    [][last'.op = "send_direct_message" =>
          /\ Cardinality(Receivers) <= 1
          /\ \A t \in Receivers :
                /\ is_post_handshake(connections[t])
                /\ connections[t].remote_id = last'.target_id]_vars


\* ------------------------------------------------------------------------
\* ConnectionLowLevel: frames on the byte stream of one connection
\* ------------------------------------------------------------------------
\* the variables of the connection table
table_vars == <<connections, next_id, kvs, config>>

\* the messages a connection is asked to send
Plaintexts == {<<>>, <<1>>, <<2, 1>>, <<1, 2, 1>>, <<2, 1, 1, 2, 1>>}

Min(a, b) == IF a <= b THEN a ELSE b

RECURSIVE Pow(_, _)
Pow(b, e) == IF e = 0 THEN 1 ELSE b * Pow(b, e - 1)

RECURSIVE SumBytes(_)
SumBytes(bytes) == IF bytes = <<>> THEN 0 ELSE Head(bytes) + SumBytes(Tail(bytes))

\* PayloadSize::to_be_bytes
to_be_bytes(n) ==
    [i \in 1..PAYLOAD_SIZE |-> (n \div Pow(256, PAYLOAD_SIZE - i)) % 256]

RECURSIVE from_be_bytes(_)
\* PayloadSize::from_be_bytes
from_be_bytes(bytes) ==
    IF bytes = <<>> THEN 0
    ELSE Head(bytes) * Pow(256, Len(bytes) - 1) + from_be_bytes(Tail(bytes))

\* the authentication tag of a noise message: it binds the plaintext and the nonce
noise_tag(nonce, plain) ==
    [i \in 1..MAC_LENGTH |-> (SumBytes(plain) + 3 * nonce + i) % 256]

\* NoiseSession::send_message: the ciphertext and its tag, and the next nonce
send_message(session, plain) ==
    [session |-> [session EXCEPT !.message_count = @ + 1, !.nonce = @ + 1],
     bytes   |-> [i \in 1..Len(plain) |-> (plain[i] + session.nonce + 1) % 256]
                 \o noise_tag(session.nonce, plain)]

\* NoiseSession::recv_message: fails unless the tag fits the nonce of the session
recv_message(session, bytes) ==
    LET len   == Len(bytes) - MAC_LENGTH
        plain == [i \in 1..len |-> (bytes[i] + 256 - ((session.nonce + 1) % 256)) % 256]
    IN  IF len >= 0 /\ SubSeq(bytes, len + 1, Len(bytes)) = noise_tag(session.nonce, plain)
        THEN [ok |-> TRUE, bytes |-> plain,
              session |-> [session EXCEPT !.message_count = @ + 1, !.nonce = @ + 1]]
        ELSE [ok |-> FALSE, bytes |-> <<>>, session |-> session]

ll_is_post_handshake_early(ll) == ll.noise_session.message_count > 1

\* ConnectionLowLevel::is_post_handshake
ll_is_post_handshake(ll) ==
    IF ll.noise_session.is_initiator
    THEN ll.noise_session.message_count > 1
    ELSE ll.noise_session.message_count > 2

\* VecDeque::drain(..written)
drain_everything(queue, written) == <<>>

drain_nothing(queue, written) == queue

drain(queue, written) == SubSeq(queue, written + 1, Len(queue))

\* the bytes the stream holds before a write would block
stream_capacity == MaxInFlight - SocketReadSize + config.socket_read_size

\* flush_socket_once: one batch of the output queue goes through the scratch
\* buffer to the socket; the socket takes some of it, or would block
flush_socket_once(ll, sock) ==
    LET write_size == Min(config.socket_write_size, Len(ll.output_queue))
        buf == [i \in 1..Len(ll.socket_buffer.buf) |->
                   IF i <= write_size THEN ll.output_queue[i] ELSE ll.socket_buffer.buf[i]]
        copied == [ll EXCEPT !.socket_buffer.buf = buf]
    IN  {[ll |-> copied, socket |-> sock, written |-> 0]}
        \cup {[ll |-> [copied EXCEPT !.output_queue = drain(@, written)],
               socket |-> sock \o SubSeq(buf, 1, written),
               written |-> written] :
                  written \in 1..Min(write_size, stream_capacity - Len(sock))}

\* encrypt_chunk: the next chunk of the input becomes one noise message
encrypt_chunk(ll, input, position) ==
    LET chunk_size == Min(NOISE_MAX_PAYLOAD_LEN, Len(input) - position)
        sent == send_message(ll.noise_session,
                             SubSeq(input, position + 1, position + chunk_size))
    IN  [ll EXCEPT !.noise_session = sent.session,
                   !.output_queue = @ \o sent.bytes]

RECURSIVE encrypt_chunks(_, _, _, _)
\* the loop of encrypt_and_enqueue
encrypt_chunks(ll, sock, input, position) ==
    IF position = Len(input) THEN {[ll |-> ll, socket |-> sock]}
    ELSE LET encrypted == encrypt_chunk(ll, input, position)
             next_position == position + Min(NOISE_MAX_PAYLOAD_LEN, Len(input) - position)
             flushed == IF Len(encrypted.output_queue) >= config.socket_write_size
                        THEN flush_socket_once(encrypted, sock)
                        ELSE {[ll |-> encrypted, socket |-> sock]}
         IN  UNION {encrypt_chunks(f.ll, f.socket, input, next_position) : f \in flushed}

\* encrypt_and_enqueue: the length of the ciphertext, then the chunks
encrypt_and_enqueue(ll, sock, input) ==
    LET num_full_chunks == Len(input) \div NOISE_MAX_PAYLOAD_LEN
        rem == Len(input) % NOISE_MAX_PAYLOAD_LEN
        last_chunk_len == IF rem # 0 THEN rem + MAC_LENGTH ELSE 0
        full_msg_len == num_full_chunks * NOISE_MAX_MESSAGE_LEN + last_chunk_len
    IN  encrypt_chunks([ll EXCEPT !.output_queue = @ \o to_be_bytes(full_msg_len)],
                       sock, input, 0)

\* ConnectionLowLevel::write_to_socket
write_to_socket(ll, sock, input) == encrypt_and_enqueue(ll, sock, input)

RECURSIVE flush_batches(_, _)
\* the loop of flush_socket over every way the socket may take the batches:
\* the flushes still running, and the outcomes of those that have returned
flush_batches(running, returned) ==
    IF running = {} THEN returned
    ELSE LET empty == {f \in running : f.ll.output_queue = <<>>}
             batches == UNION {flush_socket_once(f.ll, f.socket) : f \in running \ empty}
         IN  flush_batches({[ll |-> f.ll, socket |-> f.socket] :
                               f \in {g \in batches : g.written # 0}},
                           returned \cup empty
                           \cup {[ll |-> f.ll, socket |-> f.socket] :
                                    f \in {g \in batches : g.written = 0}})

\* flush_socket: batches until the queue is empty or the socket takes nothing
flush_socket(ll, sock) == flush_batches({[ll |-> ll, socket |-> sock]}, {})

\* ------------------------------------------------------------------------
\* The XX handshake
\* ------------------------------------------------------------------------
\* the public keys a handshake message carries
KeyBytes(n) == [i \in 1..n |-> 9]

Zeros(n) == [i \in 1..n |-> 0]

\* what precedes the payload of handshake message A, B, C (count 0, 1, 2): the
\* keys and, once a key is agreed, the tag of the encrypted static key
handshake_prefix_len(message_count) ==
    IF message_count = 0 THEN DHLEN
    ELSE IF message_count = 1 THEN DHLEN * 2 + MAC_LENGTH
    ELSE DHLEN + MAC_LENGTH

\* the authentication tag of a handshake message
handshake_tag(message_count, plain) ==
    [i \in 1..MAC_LENGTH |-> (SumBytes(plain) + 11 * (message_count + 1) + i) % 256]

\* NoiseSession::send_message during the handshake: the message is written in
\* place; message A carries its payload in the clear
send_handshake_message(session, buf) ==
    LET mc == session.message_count
        prefix_len == handshake_prefix_len(mc)
        payload == SubSeq(buf, prefix_len + 1, Len(buf) - MAC_LENGTH)
        next == [session EXCEPT !.message_count = @ + 1]
    IN  IF mc = 0
        THEN IF Len(buf) < DHLEN
             THEN [ok |-> FALSE, session |-> session, bytes |-> buf]
             ELSE [ok |-> TRUE, session |-> next,
                   bytes |-> KeyBytes(DHLEN) \o SubSeq(buf, DHLEN + 1, Len(buf))]
        ELSE IF Len(buf) < prefix_len + MAC_LENGTH
             THEN [ok |-> FALSE, session |-> session, bytes |-> buf]
             ELSE [ok |-> TRUE, session |-> next,
                   bytes |-> KeyBytes(prefix_len - MAC_LENGTH)
                             \o handshake_tag(mc, <<>>)
                             \o [i \in 1..Len(payload) |-> (payload[i] + mc + 1) % 256]
                             \o handshake_tag(mc, payload)]

\* NoiseSession::recv_message during the handshake: the message is read in
\* place; the tags of messages B and C are verified
recv_handshake_message(session, bytes) ==
    LET mc == session.message_count
        prefix_len == handshake_prefix_len(mc)
        cipher == SubSeq(bytes, prefix_len + 1, Len(bytes) - MAC_LENGTH)
        payload == [i \in 1..Len(cipher) |-> (cipher[i] + 256 - (mc + 1)) % 256]
        next == [session EXCEPT !.message_count = @ + 1]
    IN  IF mc = 0
        THEN IF Len(bytes) < DHLEN
             THEN [ok |-> FALSE, session |-> session, bytes |-> bytes]
             ELSE [ok |-> TRUE, session |-> next, bytes |-> bytes]
        ELSE IF /\ Len(bytes) >= prefix_len + MAC_LENGTH
                /\ SubSeq(bytes, prefix_len - MAC_LENGTH + 1, prefix_len)
                       = handshake_tag(mc, <<>>)
                /\ SubSeq(bytes, Len(bytes) - MAC_LENGTH + 1, Len(bytes))
                       = handshake_tag(mc, payload)
             THEN [ok |-> TRUE, session |-> next,
                   bytes |-> SubSeq(bytes, 1, prefix_len) \o payload
                             \o SubSeq(bytes, Len(bytes) - MAC_LENGTH + 1, Len(bytes))]
             ELSE [ok |-> FALSE, session |-> session, bytes |-> bytes]

\* send_xx_msg!: the length, room for the handshake prefix, the payload and
\* room for the suffix; the message is queued and the queue flushed
send_xx_msg(ll, out, prefix_len, payload, suffix_len) ==
    LET msg == Zeros(prefix_len) \o payload \o Zeros(suffix_len)
        sent == send_handshake_message(ll.noise_session, msg)
        queued == [ll EXCEPT !.noise_session = sent.session,
                             !.output_queue = @ \o to_be_bytes(Len(msg)) \o sent.bytes]
    IN  IF ~sent.ok THEN {[ok |-> FALSE, ll |-> ll, socket |-> out]}
        ELSE {[ok |-> TRUE, ll |-> f.ll, socket |-> f.socket] :
                 f \in flush_socket(queued, out)}

\* send_handshake_message_a: message A carries the preshared proof
send_handshake_message_a(ll, out) == send_xx_msg(ll, out, DHLEN, PSK, HandshakePad)

\* recv_xx_msg!: the first len bytes at the offset of the socket buffer are
\* handed to the noise session, which reads them in place
recv_xx_msg(ll, len) ==
    LET recv == recv_handshake_message(ll.noise_session,
                    SubSeq(ll.socket_buffer.buf, ll.socket_buffer.offset + 1,
                           ll.socket_buffer.offset + len))
    IN  [ok |-> recv.ok,
         bytes |-> recv.bytes,
         ll |-> [ll EXCEPT
                    !.noise_session = recv.session,
                    !.socket_buffer.buf =
                        [i \in 1..Len(@) |->
                            IF i > ll.socket_buffer.offset
                               /\ i <= ll.socket_buffer.offset + len
                            THEN recv.bytes[i - ll.socket_buffer.offset] ELSE @[i]]]]

\* process_msg_a: message A is read, its payload taken out, message B sent
process_msg_a(ll, out, len) ==
    LET recv == recv_xx_msg(ll, len)
        payload_len == len - DHLEN - HandshakePad
    IN  IF ~recv.ok \/ payload_len < 0
        THEN {[ok |-> FALSE, ll |-> recv.ll, out |-> out, payload |-> <<>>]}
        ELSE {[ok |-> sent.ok, ll |-> sent.ll, out |-> sent.socket,
               payload |-> SubSeq(recv.bytes, DHLEN + 1, DHLEN + payload_len)] :
                 sent \in send_xx_msg(recv.ll, out, DHLEN * 2 + MAC_LENGTH,
                                      HandshakeRequest, MAC_LENGTH)}

\* process_msg_b: message B is read, its payload taken out, message C sent
process_msg_b(ll, out, len) ==
    LET recv == recv_xx_msg(ll, len)
        payload_len == len - DHLEN * 2 - MAC_LENGTH * 2
    IN  IF ~recv.ok \/ payload_len < 0
        THEN {[ok |-> FALSE, ll |-> recv.ll, out |-> out, payload |-> <<>>]}
        ELSE {[ok |-> sent.ok, ll |-> sent.ll, out |-> sent.socket,
               payload |-> SubSeq(recv.bytes, DHLEN * 2 + MAC_LENGTH + 1,
                                  DHLEN * 2 + MAC_LENGTH + payload_len)] :
                 sent \in send_xx_msg(recv.ll, out, DHLEN + MAC_LENGTH,
                                      HandshakeRequest, MAC_LENGTH)}

\* process_msg_c: message C is read and its payload taken out
process_msg_c(ll, out, len) ==
    LET recv == recv_xx_msg(ll, len)
        payload_len == len - DHLEN - MAC_LENGTH * 2
    IN  IF ~recv.ok \/ payload_len < 0
        THEN {[ok |-> FALSE, ll |-> recv.ll, out |-> out, payload |-> <<>>]}
        ELSE {[ok |-> TRUE, ll |-> recv.ll, out |-> out,
               payload |-> SubSeq(recv.bytes, DHLEN + MAC_LENGTH + 1,
                                  DHLEN + MAC_LENGTH + payload_len)]}

\* ------------------------------------------------------------------------
\* Reading from the socket
\* ------------------------------------------------------------------------
\* SocketBuffer
is_exhausted(socket_buffer) == socket_buffer.offset = Len(socket_buffer.buf)

slice(socket_buffer, len) ==
    SubSeq(socket_buffer.buf, socket_buffer.offset + 1, socket_buffer.offset + len)

shift(socket_buffer, offset) ==
    [socket_buffer EXCEPT !.offset = @ + offset, !.remaining = @ - offset]

reset(socket_buffer) == [socket_buffer EXCEPT !.offset = 0, !.remaining = 0]

size_rejected_by_protocol_limit(ll, expected_size) ==
    expected_size = 0 \/ expected_size > PROTOCOL_MAX_MESSAGE_SIZE

\* the three bail! of attempt_to_read_length
size_rejected(ll, expected_size) ==
    \/ expected_size = 0
    \/ ~ll_is_post_handshake(ll) /\ expected_size >= HANDSHAKE_SIZE_LIMIT
    \/ expected_size > PROTOCOL_MAX_MESSAGE_SIZE

\* attempt_to_read_length: the length prefix, once its four bytes are there
attempt_to_read_length(ll) ==
    LET read_size == Min(ll.socket_buffer.remaining,
                         PAYLOAD_SIZE - Len(ll.incoming_msg.size_bytes))
        size_bytes == ll.incoming_msg.size_bytes \o slice(ll.socket_buffer, read_size)
        shifted == [ll EXCEPT !.socket_buffer = shift(@, read_size)]
        expected_size == from_be_bytes(size_bytes)
    IN  IF Len(size_bytes) # PAYLOAD_SIZE
        THEN [ok |-> TRUE, ll |-> [shifted EXCEPT !.incoming_msg.size_bytes = size_bytes]]
        ELSE IF size_rejected(ll, expected_size)
             THEN [ok |-> FALSE, ll |-> [shifted EXCEPT !.incoming_msg.size_bytes = <<>>]]
             ELSE [ok |-> TRUE,
                   ll |-> [shifted EXCEPT !.incoming_msg =
                              [size_bytes |-> <<>>, pending_bytes |-> expected_size,
                               message |-> <<>>]]]

RECURSIVE decrypt_chunks(_, _, _, _)
\* the loop of decrypt over decrypt_chunk
decrypt_chunks(session, msg, i, num_all_chunks) ==
    IF i = num_all_chunks THEN [ok |-> TRUE, session |-> session, bytes |-> <<>>]
    ELSE LET start == i * NOISE_MAX_MESSAGE_LEN
             read_size == Min(NOISE_MAX_MESSAGE_LEN, Len(msg) - start)
             chunk == recv_message(session, SubSeq(msg, start + 1, start + read_size))
             rest == decrypt_chunks(chunk.session, msg, i + 1, num_all_chunks)
         IN  IF chunk.ok /\ rest.ok
             THEN [ok |-> TRUE, session |-> rest.session, bytes |-> chunk.bytes \o rest.bytes]
             ELSE [ok |-> FALSE, session |-> session, bytes |-> <<>>]

\* ConnectionLowLevel::decrypt
decrypt(session, msg) ==
    LET num_full_chunks == Len(msg) \div NOISE_MAX_MESSAGE_LEN
        last_chunk_size == Len(msg) % NOISE_MAX_MESSAGE_LEN
        num_all_chunks == num_full_chunks + (IF last_chunk_size > 0 THEN 1 ELSE 0)
    IN  decrypt_chunks(session, msg, 0, num_all_chunks)

\* the handshake step of process_incoming_msg: the message the session's role
\* and count call for is processed; any other role and count is an error
process_handshake_msg(ll, out, to_read) ==
    LET count == ll.noise_session.message_count
        is_initiator == ll.noise_session.is_initiator
        step == IF count = 0 /\ ~is_initiator THEN "A"
                ELSE IF count = 1 /\ is_initiator THEN "B"
                ELSE IF count = 2 /\ ~is_initiator THEN "C"
                ELSE "invalid XX handshake"
        processed == IF step = "A" THEN process_msg_a(ll, out, to_read)
                     ELSE IF step = "B" THEN process_msg_b(ll, out, to_read)
                     ELSE IF step = "C" THEN process_msg_c(ll, out, to_read)
                     ELSE {[ok |-> FALSE, ll |-> ll, out |-> out, payload |-> <<>>]}
    IN  {IF ~r.ok
         THEN [result |-> "Err", ll |-> r.ll, msg |-> <<>>, out |-> r.out, hs |-> <<>>]
         ELSE LET entry == <<[step |-> step, is_initiator |-> is_initiator,
                              count |-> count, payload |-> r.payload]>>
                  cleared == [r.ll EXCEPT !.socket_buffer = reset(@)]
              IN  IF ~is_initiator /\ r.ll.noise_session.message_count = 1
                     /\ r.payload # PSK
                  THEN [result |-> "Err", ll |-> r.ll, msg |-> <<>>, out |-> r.out,
                        hs |-> entry]
                  ELSE IF ~is_initiator /\ r.ll.noise_session.message_count = 2
                  THEN [result |-> "Incomplete", ll |-> cleared, msg |-> <<>>,
                        out |-> r.out, hs |-> entry]
                  ELSE [result |-> "Complete", ll |-> cleared, msg |-> r.payload,
                        out |-> r.out, hs |-> entry] :
         r \in processed}

\* process_incoming_msg: the bytes at hand join the current message; a whole
\* message is a handshake message before the handshake and is decrypted after
process_incoming_msg(ll, out) ==
    LET to_read == Min(ll.incoming_msg.pending_bytes, ll.socket_buffer.remaining)
        consumed == slice(ll.socket_buffer, to_read)
        taken == [ll EXCEPT !.incoming_msg.message = @ \o consumed,
                            !.incoming_msg.pending_bytes = @ - to_read,
                            !.socket_buffer = IF ll_is_post_handshake(ll)
                                              THEN shift(@, to_read) ELSE @]
        opened == decrypt(taken.noise_session, taken.incoming_msg.message)
    IN  {[consumed |-> consumed] @@ r :
         r \in IF taken.incoming_msg.pending_bytes # 0
               THEN {[result |-> "Incomplete", ll |-> taken, msg |-> <<>>, out |-> out,
                      hs |-> <<>>]}
               ELSE IF ~ll_is_post_handshake(taken)
               THEN process_handshake_msg(taken, out, to_read)
               ELSE IF opened.ok
               THEN {[result |-> "Complete", msg |-> opened.bytes, out |-> out,
                      hs |-> <<>>,
                      ll |-> [taken EXCEPT !.incoming_msg.message = <<>>,
                                           !.noise_session = opened.session]]}
               ELSE {[result |-> "Err", msg |-> <<>>, out |-> out, hs |-> <<>>,
                      ll |-> [taken EXCEPT !.incoming_msg.message = <<>>]]}}

\* read_from_socket, from the bytes left over or from what the socket gives:
\* the bytes that have arrived, as far as the buffer has room (the writes of
\* the other end decide how the stream is cut into arrivals)
read_from_socket(ll, sock, out) ==
    LET fresh == IF is_exhausted(ll.socket_buffer)
                 THEN [ll EXCEPT !.socket_buffer = reset(@)] ELSE ll
        len == Len(fresh.socket_buffer.buf) - fresh.socket_buffer.offset
        parse(l, s, taken) ==
            LET sized == IF l.incoming_msg.pending_bytes = 0
                         THEN attempt_to_read_length(l) ELSE [ok |-> TRUE, ll |-> l]
                prefix == SubSeq(l.socket_buffer.buf, l.socket_buffer.offset + 1,
                                 sized.ll.socket_buffer.offset)
            IN  IF ~sized.ok
                THEN {[result |-> "Err", ll |-> sized.ll, msg |-> <<>>, socket |-> s,
                       out |-> out, taken |-> taken, consumed |-> prefix, hs |-> <<>>]}
                ELSE IF sized.ll.incoming_msg.pending_bytes # 0
                     THEN {[r EXCEPT !.consumed = prefix \o @] @@
                           [socket |-> s, taken |-> taken] :
                              r \in process_incoming_msg(sized.ll, out)}
                     ELSE {[result |-> "Incomplete", ll |-> sized.ll, msg |-> <<>>,
                            socket |-> s, out |-> out, taken |-> taken,
                            consumed |-> prefix, hs |-> <<>>]}
    IN  IF fresh.socket_buffer.remaining # 0 THEN parse(fresh, sock, <<>>)
        ELSE IF sock = <<>>
             THEN {[result |-> "WouldBlock", ll |-> fresh, msg |-> <<>>, socket |-> sock,
                    out |-> out, taken |-> <<>>, consumed |-> <<>>, hs |-> <<>>]}
             ELSE LET num_bytes == Min(len, Len(sock))
                  IN  parse([fresh EXCEPT
                                !.socket_buffer.remaining = num_bytes,
                                !.socket_buffer.buf =
                                    [i \in 1..Len(@) |->
                                        IF i > fresh.socket_buffer.offset
                                           /\ i <= fresh.socket_buffer.offset + num_bytes
                                        THEN sock[i - fresh.socket_buffer.offset] ELSE @[i]]],
                            SubSeq(sock, num_bytes + 1, Len(sock)),
                            SubSeq(sock, 1, num_bytes))

\* what a run of read_stream has done so far
NoProgress == [processed |-> <<>>, taken |-> <<>>, consumed |-> <<>>, hs |-> <<>>]

RECURSIVE read_stream(_, _, _, _)
\* read_stream: messages are read and processed until a read is incomplete,
\* would block, or fails
read_stream(ll, sock, out, done) ==
    UNION {LET progress == [processed |-> IF r.result = "Complete"
                                          THEN Append(done.processed, r.msg)
                                          ELSE done.processed,
                            taken |-> done.taken \o r.taken,
                            consumed |-> done.consumed \o r.consumed,
                            hs |-> done.hs \o r.hs]
           IN  IF r.result = "Complete"
               THEN read_stream(r.ll, r.socket, r.out, progress)
               ELSE {[ll |-> r.ll, socket |-> r.socket, out |-> r.out,
                      ok |-> r.result # "Err"] @@ progress} :
           r \in read_from_socket(ll, sock, out)}

\* the ConnectionLowLevel of the end that opened the connection
WriterLowLevel == [noise_session |-> writer.noise_session,
                   output_queue |-> writer.output_queue,
                   socket_buffer |-> writer.socket_buffer,
                   incoming_msg |-> writer.incoming_msg]

WithLowLevel(w, ll) == [w EXCEPT !.noise_session = ll.noise_session,
                                 !.output_queue = ll.output_queue,
                                 !.socket_buffer = ll.socket_buffer,
                                 !.incoming_msg = ll.incoming_msg]

\* the ConnectionLowLevel of the end that accepted it
ReaderLowLevel == [noise_session |-> reader.noise_session,
                   output_queue |-> reader.output_queue,
                   socket_buffer |-> reader.socket_buffer,
                   incoming_msg |-> reader.incoming_msg]

\* the bytes a write of the opening end has appended to its output queue: what
\* the queue has gained when the socket took nothing during the call
Appended(ll, outcomes, sock) ==
    LET blocked == CHOOSE w \in outcomes : w.socket = sock
    IN  SubSeq(blocked.ll.output_queue, Len(ll.output_queue) + 1,
               Len(blocked.ll.output_queue))

\* a message is encrypted and enqueued on the connection
WriteMessage(input) ==
    \E w \in write_to_socket(WriterLowLevel, socket, input) :
        /\ Len(trace.written) < MaxMessages
        /\ ll_is_post_handshake(writer)
        /\ ~writer.failed
        /\ writer' = WithLowLevel(writer, w.ll)
        /\ socket' = w.socket
        /\ trace' = [trace EXCEPT
                        !.written = Append(@, input),
                        !.queued = @ \o Appended(WriterLowLevel,
                                                 write_to_socket(WriterLowLevel, socket,
                                                                 input), socket),
                        !.wire = @ \o SubSeq(w.socket, Len(socket) + 1, Len(w.socket))]
        /\ last' = [op |-> "write_to_socket", input |-> input]
        /\ UNCHANGED <<table_vars, reader, replies, service_vars, directory_vars>>

WriteToSocket == \E input \in Plaintexts : WriteMessage(input)

\* the poll loop flushes the output queue of the connection
FlushSocket ==
    \E w \in flush_socket(WriterLowLevel, socket) :
        /\ writer.output_queue # <<>>
        /\ writer' = WithLowLevel(writer, w.ll)
        /\ socket' = w.socket
        /\ trace' = [trace EXCEPT
                        !.wire = @ \o SubSeq(w.socket, Len(socket) + 1, Len(w.socket))]
        /\ last' = [op |-> "flush_socket", progress |-> w.socket # socket]
        /\ UNCHANGED <<table_vars, reader, replies, service_vars, directory_vars>>

\* the peer's poll loop reads the stream; a failed read closes the connection
ReadStream ==
    \E r \in read_stream(ReaderLowLevel, socket, replies, NoProgress) :
        /\ ~reader.failed
        /\ socket # <<>> \/ reader.socket_buffer.remaining # 0
        /\ reader' = [noise_session |-> r.ll.noise_session,
                      output_queue |-> r.ll.output_queue,
                      socket_buffer |-> r.ll.socket_buffer,
                      incoming_msg |-> r.ll.incoming_msg,
                      failed |-> ~r.ok]
        /\ socket' = r.socket
        /\ replies' = r.out
        /\ trace' = [trace EXCEPT !.received = @ \o r.processed,
                                  !.taken = @ \o r.taken,
                                  !.consumed = @ \o r.consumed,
                                  !.handshake = @ \o r.hs]
        /\ last' = [op |-> "read_stream", processed |-> r.processed, ok |-> r.ok]
        /\ UNCHANGED <<table_vars, writer, service_vars, directory_vars>>

\* a node without connections, and one connection's stream after its handshake
InitFrame ==
    /\ connections = <<>>
    /\ next_id = 1
    /\ kvs = {}
    /\ config = Config("Node", 100, MaxToken)
    /\ last = [op |-> "new"]
    /\ OffTableInit

NextFrame ==
    \/ WriteToSocket
    \/ FlushSocket
    \/ ReadStream

SpecFrame == InitFrame /\ [][NextFrame]_vars

IsPrefix(s, t) == Len(s) <= Len(t) /\ SubSeq(t, 1, Len(s)) = s

\* nothing is left in the output queue, on the stream or in the read buffer
StreamDrained ==
    /\ writer.output_queue = <<>>
    /\ socket = <<>>
    /\ reader.socket_buffer.remaining = 0

\* C11: every message written to a connection, the empty one and the largest
\* one included, is read back unchanged at the other end: the reader never
\* fails, and once the stream is drained it has processed exactly the
\* messages that were written
C11_FrameRoundTrip ==
    /\ ~reader.failed
    /\ StreamDrained => trace.received = trace.written

RECURSIVE SealedChunks(_, _)
\* the noise messages of one plaintext, first nonce given, in order
SealedChunks(input, nonce) ==
    IF input = <<>> THEN <<>>
    ELSE LET chunk_size == Min(NOISE_MAX_PAYLOAD_LEN, Len(input))
             sealed == send_message([is_initiator |-> TRUE, message_count |-> 3 + nonce,
                                     nonce |-> nonce],
                                    SubSeq(input, 1, chunk_size))
         IN  sealed.bytes \o SealedChunks(SubSeq(input, chunk_size + 1, Len(input)), nonce + 1)

ChunksOf(input) ==
    (Len(input) + NOISE_MAX_PAYLOAD_LEN - 1) \div NOISE_MAX_PAYLOAD_LEN

RECURSIVE FramesOf(_, _)
\* the frames of a sequence of messages, one after the other
FramesOf(msgs, nonce) ==
    IF msgs = <<>> THEN <<>>
    ELSE LET sealed == SealedChunks(Head(msgs), nonce)
         IN  to_be_bytes(Len(sealed)) \o sealed
             \o FramesOf(Tail(msgs), nonce + ChunksOf(Head(msgs)))

C27_SocketGetsQueuePrefix ==
    /\ trace.wire \o writer.output_queue = trace.queued
    /\ IsPrefix(trace.wire, trace.queued)

\* a flush after earlier writes that the socket took only a part of
C27_Witness ==
    /\ last.op = "flush_socket"
    /\ last.progress
    /\ writer.output_queue # <<>>
    /\ Len(trace.wire) > SocketWriteSize
    /\ Len(trace.written) = 2

\* ------------------------------------------------------------------------
\* Connection.pending_messages: PriorityQueue<Arc<[u8]>, PendingPriority>
\* ------------------------------------------------------------------------
\* MessageSendingPriority: Normal and High
Priorities == {0, 1}

\* PendingPriority: the sending priority, then the earlier instant
PendingPriority(priority, instant) == [priority |-> priority, instant |-> instant]

priority_greater(a, b) ==
    \/ a.priority > b.priority
    \/ (a.priority = b.priority /\ a.instant < b.instant)

\* PriorityQueue::push: the queue holds an item once; pushing an item that
\* is equal to a queued one replaces the priority of that entry
push(queue, item, priority) ==
    {e \in queue : e.item # item} \cup {[item |-> item, priority |-> priority]}

\* PriorityQueue::pop: the entry of the greatest priority
pop(queue) ==
    CHOOSE e \in queue : \A o \in queue \ {e} : priority_greater(e.priority, o.priority)

RECURSIVE low_level_send_pending_messages(_, _, _, _)
\* ConnectionLowLevel::send_pending_messages: the queue is popped until it is
\* empty and every message popped is written to the socket
low_level_send_pending_messages(pending_messages, ll, sock, written) ==
    IF pending_messages = {}
    THEN {[ll |-> ll, socket |-> sock, written |-> written]}
    ELSE LET msg == pop(pending_messages).item
         IN  UNION {low_level_send_pending_messages(
                        {e \in pending_messages : e.item # msg},
                        w.ll, w.socket, Append(written, msg)) :
                    w \in write_to_socket(ll, sock, msg)}

\* Connection::async_send(message, priority)
AsyncSend ==
    \E message \in Plaintexts, priority \in Priorities :
        /\ Len(trace.enqueued) < MaxMessages
        /\ writer' = [writer EXCEPT
                         !.pending_messages =
                             push(@, message, PendingPriority(priority, writer.instant)),
                         !.instant = @ + 1]
        /\ trace' = [trace EXCEPT
                        !.enqueued = Append(@, [item |-> message, priority |-> priority])]
        /\ last' = [op |-> "async_send", message |-> message, priority |-> priority]
        /\ UNCHANGED <<table_vars, socket, reader, replies, service_vars, directory_vars>>

\* the poll loop drains the pending queue of the connection
SendPendingMessages ==
    \E w \in low_level_send_pending_messages(writer.pending_messages, WriterLowLevel,
                                             socket, <<>>) :
        /\ writer.pending_messages # {}
        /\ writer' = [WithLowLevel(writer, w.ll) EXCEPT !.pending_messages = {}]
        /\ socket' = w.socket
        /\ trace' = [trace EXCEPT
                        !.drained = Len(trace.enqueued),
                        !.written = @ \o w.written,
                        !.wire = @ \o SubSeq(w.socket, Len(socket) + 1, Len(w.socket))]
        /\ last' = [op |-> "low_level.send_pending_messages",
                    batch |-> SubSeq(trace.enqueued, trace.drained + 1, Len(trace.enqueued)),
                    written |-> w.written]
        /\ UNCHANGED <<table_vars, reader, replies, service_vars, directory_vars>>

NextPending ==
    \/ AsyncSend
    \/ SendPendingMessages

SpecPending == InitFrame /\ [][NextPending]_vars

IsHigh(e) == e.priority = 1

IsNormal(e) == e.priority = 0

Items(entries) == [i \in 1..Len(entries) |-> entries[i].item]

\* C13: a drain of the pending queue writes every message enqueued since the
\* previous drain, those of high priority before those of normal priority and
\* each class in the order of the enqueues; none is skipped or merged
C13_PendingDrainedInPriorityOrder ==
    last.op = "low_level.send_pending_messages" =>
        last.written = Items(SelectSeq(last.batch, IsHigh))
                       \o Items(SelectSeq(last.batch, IsNormal))

\* ------------------------------------------------------------------------
\* Packets received from peers: deduplication, handle_pkt_out, rebroadcast
\* ------------------------------------------------------------------------
PAYLOAD_TYPE_LENGTH == 2

\* PacketType::try_from of the two-byte code
PacketType_try_from(code) ==
    CASE code = 0 -> "Block"
      [] code = 1 -> "Transaction"
      [] code = 2 -> "FinalizationRecord"
      [] code = 3 -> "FinalizationMessage"
      [] code = 4 -> "CatchUpStatus"
      [] OTHER -> "Unknown"

\* packet payloads: too short, a block, two transactions, a finalization
\* message and an unknown type
PacketPayloads ==
    {<<0>>, <<0, 0, 5>>, <<0, 1, 5>>, <<0, 1, 6>>, <<0, 3, 5>>, <<0, 9, 5>>}

NetworkPackets ==
    [kind : {"Packet"}, distribution : {"Broadcast", "Direct"},
     dont_relay_to : {{}}, network_id : NetworkIds, payload : PacketPayloads]

NetworkMessages == NetworkPackets \cup {[kind |-> "Ping"]}

\* the type of a payload that carries a known type code, "Unknown" otherwise
payload_type(msg) ==
    IF Len(msg) < PAYLOAD_TYPE_LENGTH THEN "Unknown"
    ELSE PacketType_try_from(from_be_bytes(SubSeq(msg, 1, PAYLOAD_TYPE_LENGTH)))

\* the key of a packet in a deduplication queue: a hash of its payload
content_hash(msg) == (31 * SumBytes(msg) + Len(msg)) % 256

\* the deduplication queue that applies to a packet type
dedup_queue_none(packet_type) == "none"

dedup_queue_of(packet_type) ==
    CASE packet_type = "Transaction" -> "short"
      [] packet_type \in {"Block", "FinalizationRecord"} -> "long"
      [] OTHER -> "none"

dedup_queue(r, which) == IF which = "short" THEN r.dedup_short ELSE r.dedup_long

\* a key enters a full queue in the place of the oldest one
dedup_insert(queue, size, key) ==
    IF Len(queue) < size THEN Append(queue, key) ELSE Append(Tail(queue), key)

\* is_packet_duplicate: whether the key is in the queue; a new key is inserted
is_packet_duplicate(r, msg) ==
    LET which == dedup_queue_of(payload_type(msg))
        key == content_hash(msg)
    IN  which # "none" /\ key \in Range(dedup_queue(r, which))

dedup_with(r, msg) ==
    LET which == dedup_queue_of(payload_type(msg))
        key == content_hash(msg)
    IN  IF which = "none" \/ key \in Range(dedup_queue(r, which)) THEN r
        ELSE IF which = "short"
             THEN [r EXCEPT !.dedup_short = dedup_insert(@, DedupSizeShort, key)]
             ELSE [r EXCEPT !.dedup_long = dedup_insert(@, DedupSizeLong, key)]

\* ConsensusMessage::new(MessageType::Inbound(peer_id, distribution_mode), ...)
ConsensusMessage(peer_id, distribution_mode, packet_type, msg, dont_relay_to) ==
    [source_peer |-> peer_id, distribution_mode |-> distribution_mode,
     variant |-> packet_type, payload |-> msg, dont_relay_to |-> dont_relay_to]

\* the inbound queue of a packet type
is_low_priority_never(packet_type) == FALSE

is_low_priority(packet_type) == packet_type = "Transaction"

\* handle_pkt_out: the router afterwards and whether the call returned Ok
handle_pkt_out(r, dont_relay_to, peer_id, msg, is_broadcast) ==
    LET packet_type == payload_type(msg)
        request == ConsensusMessage(peer_id,
                                    IF is_broadcast THEN "Broadcast" ELSE "Direct",
                                    packet_type, msg, dont_relay_to)
    IN  IF Len(msg) < 2 \/ packet_type = "Unknown" THEN [router |-> r, ok |-> FALSE]
        ELSE IF is_low_priority(packet_type)
        THEN IF Len(r.low_priority) < InboundQueueCapacity
             THEN [ok |-> TRUE,
                   router |-> [r EXCEPT
                       !.low_priority = Append(@, request),
                       !.stats.inbound_low_priority_consensus = @ + 1]]
             ELSE [ok |-> TRUE,
                   router |-> [r EXCEPT
                       !.stats.inbound_low_priority_consensus_drops = @ + 1]]
        ELSE IF Len(r.high_priority) < InboundQueueCapacity
             THEN [ok |-> TRUE,
                   router |-> [r EXCEPT
                       !.high_priority = Append(@, request),
                       !.stats.inbound_high_priority_consensus = @ + 1]]
             ELSE [ok |-> TRUE,
                   router |-> [r EXCEPT
                       !.stats.inbound_high_priority_consensus_drops = @ + 1]]

\* handle_incoming_packet on a connection whose remote id is set
handle_incoming_packet(r, conn, pac) ==
    LET peer_id == conn.remote_id
        is_broadcast == pac.distribution = "Broadcast"
        dont_relay_to == IF is_broadcast THEN pac.dont_relay_to \cup {peer_id} ELSE {}
    IN  handle_pkt_out(r, dont_relay_to, peer_id, pac.payload, is_broadcast)

\* whether process_message lets a message of this kind through on a connection
may_process_always(conn, message) == TRUE

may_process(conn, message) == is_post_handshake(conn) \/ message.kind = "Handshake"

\* Connection::process_message for a message read from connection token: a
\* message other than Handshake before the handshake is an error, and
\* read_stream's error makes process_network_events remove the connection; a
\* duplicate packet is dropped; a packet goes to handle_incoming_packet, a
\* Ping is answered with a Pong
ProcessMessage(token, message) ==
    LET conn == connections[token]
        counted == [router EXCEPT !.received = @ + 1]
        handled == handle_incoming_packet(dedup_with(counted, message.payload),
                                          conn, message)
    IN  /\ token \in DOMAIN connections
        /\ router.received < MaxReceived
        /\ IF ~may_process(conn, message)
           THEN /\ connections' = remove_connection(connections, token)
                /\ router' = counted
                /\ last' = [op |-> "process_message", token |-> token,
                            message |-> message, outcome |-> "closed"]
           ELSE IF message.kind = "Ping"
           THEN /\ HasRoom(conn, 1)
                /\ connections' = [connections EXCEPT ![token] = async_send(@, Msg("Pong"))]
                /\ router' = counted
                /\ last' = [op |-> "process_message", token |-> token,
                            message |-> message, outcome |-> "pong"]
           ELSE IF is_packet_duplicate(router, message.payload)
           THEN /\ router' = counted
                /\ last' = [op |-> "process_message", token |-> token,
                            message |-> message, outcome |-> "duplicate"]
                /\ UNCHANGED connections
           ELSE /\ router' = handled.router
                /\ last' = [op |-> "process_message", token |-> token,
                            message |-> message,
                            outcome |-> IF handled.ok THEN "forwarded" ELSE "rejected"]
                /\ UNCHANGED connections
        /\ UNCHANGED <<next_id, kvs, config, stream_vars, poll, directory_vars>>

\* ConsensusFfiResponse and its predicates
ConsensusFfiResponses == {"Success", "PendingBlock", "ContinueCatchUp", "DuplicateEntry"}

is_successful(consensus_result) == consensus_result \in {"Success", "PendingBlock"}

is_pending(consensus_result) == consensus_result = "PendingBlock"

is_rebroadcastable(consensus_result) == consensus_result \in {"Success", "PendingBlock"}

PeerStatuses == {"Pending", "CatchingUp", "UpToDate"}

\* an update_peer_states whose continue-catch-up arm resets every UpToDate
\* peer, not only the source
update_peer_states_resets_all(peers, request, successful, pending, continue_catch_up) ==
    LET source_peer == request.source_peer
        pushed(status) == [id \in DOMAIN peers \cup {source_peer} |->
                              IF id = source_peer THEN status ELSE peers[id]]
        all_pending == [id \in DOMAIN peers |->
                     IF peers[id] = "UpToDate" THEN "Pending" ELSE peers[id]]
    IN  IF request.variant = "CatchUpStatus"
        THEN IF successful THEN pushed("UpToDate")
             ELSE IF pending THEN pushed("Pending")
             ELSE IF continue_catch_up THEN all_pending ELSE peers
        ELSE IF request.variant \in {"Block", "FinalizationRecord"}
        THEN IF request.distribution_mode = "Direct" /\ successful
             THEN all_pending
             ELSE IF request.distribution_mode = "Broadcast" /\ pending
                  THEN pushed("Pending")
                  ELSE peers
        ELSE peers

\* update_peer_states, given what is_successful, is_pending and the comparison
\* with ContinueCatchUp say about the result
update_peer_states_by(peers, request, successful, pending, continue_catch_up) ==
    LET source_peer == request.source_peer
        pushed(status) == [id \in DOMAIN peers \cup {source_peer} |->
                              IF id = source_peer THEN status ELSE peers[id]]
    IN  IF request.variant = "CatchUpStatus"
        THEN IF successful THEN pushed("UpToDate")
             ELSE IF pending THEN pushed("Pending")
             ELSE IF continue_catch_up
                     /\ source_peer \in DOMAIN peers /\ peers[source_peer] = "UpToDate"
                  THEN [peers EXCEPT ![source_peer] = "Pending"]
                  ELSE peers
        ELSE IF request.variant \in {"Block", "FinalizationRecord"}
        THEN IF request.distribution_mode = "Direct" /\ successful
             THEN [id \in DOMAIN peers |->
                      IF peers[id] = "UpToDate" THEN "Pending" ELSE peers[id]]
             ELSE IF request.distribution_mode = "Broadcast" /\ pending
                  THEN pushed("Pending")
                  ELSE peers
        ELSE peers

\* update_peer_states: the catch-up status of the peers after a message
update_peer_states(peers, request, consensus_result) ==
    update_peer_states_by(peers, request,
                          is_successful(consensus_result),
                          is_pending(consensus_result),
                          consensus_result = "ContinueCatchUp")

\* the node is in the middle of catch-up while a peer is catching up
is_catching_up(peers) == \E id \in DOMAIN peers : peers[id] = "CatchingUp"

\* process_external_gs_entry: whether the request is sent on to the network
rebroadcasts(request, consensus_result, no_rebroadcast_consensus_validation) ==
    IF no_rebroadcast_consensus_validation
    THEN request.distribution_mode = "Broadcast"
    ELSE request.distribution_mode = "Broadcast" /\ is_rebroadcastable(consensus_result)

\* the consensus thread takes a message from an inbound queue and runs
\* process_external_gs_entry on it; consensus answers with any response
ProcessExternalGsEntry(from_high, consensus_result) ==
    LET queue == IF from_high THEN router.high_priority ELSE router.low_priority
        request == Head(queue)
        rebroadcast == rebroadcasts(request, consensus_result,
                                    router.no_rebroadcast_consensus_validation)
    IN  /\ queue # <<>>
        /\ rebroadcast => AllHaveRoom
        /\ router' = [router EXCEPT
                         !.high_priority = IF from_high THEN Tail(@) ELSE @,
                         !.low_priority = IF from_high THEN @ ELSE Tail(@),
                         !.peers = update_peer_states(@, request, consensus_result)]
        /\ IF rebroadcast
           THEN \E peers_to_skip \in
                      peers_to_skip_choices(connections, request.dont_relay_to) :
                   connections' =
                       process_broadcast_packet(connections, request.source_peer,
                                                request.dont_relay_to, 1, peers_to_skip)
           ELSE UNCHANGED connections
        /\ last' = [op |-> "process_external_gs_entry", request |-> request,
                    consensus_result |-> consensus_result,
                    rebroadcast |-> rebroadcast,
                    before_consensus |->
                        rebroadcast /\ router.no_rebroadcast_consensus_validation,
                    catching_up |-> is_catching_up(router.peers)]
        /\ UNCHANGED <<next_id, kvs, config, stream_vars, poll, directory_vars>>

\* a node with three connections: one that has not completed its handshake
\* and two peers, one of which may be catching up
RouterTable ==
    [t \in 1..3 |->
        IF t = 1
        THEN EstablishedConnection(1, [status |-> "PreHandshake", peer_type |-> "Node",
                                       remote_id |-> None, networks |-> {}])
        ELSE EstablishedConnection(t, [status |-> "PostHandshake", peer_type |-> "Node",
                                       remote_id |-> t - 1, networks |-> {1}])]

InitRouter ==
    /\ connections = RouterTable
    /\ next_id = 4
    /\ kvs = {}
    /\ config = Config("Node", 100, MaxToken)
    /\ last = [op |-> "new"]
    /\ StreamInit
    /\ DirectoryInit
    /\ poll = NewPoll
    /\ \E flag \in BOOLEAN, status \in {"UpToDate", "CatchingUp"} :
          router = [NewRouter EXCEPT
                       !.no_rebroadcast_consensus_validation = flag,
                       !.peers = [id \in {1} |-> status]]

NextRouter ==
    \/ \E token \in DOMAIN connections, message \in NetworkMessages :
          ProcessMessage(token, message)
    \/ \E from_high \in BOOLEAN, consensus_result \in ConsensusFfiResponses :
          ProcessExternalGsEntry(from_high, consensus_result)

SpecRouter == InitRouter /\ [][NextRouter]_vars

\* the deduplication window a packet falls under: the short queue for a
\* transaction, the long queue for a block or a finalization record
ApplicableWindow(r, msg) ==
    IF payload_type(msg) = "Transaction" THEN Range(r.dedup_short)
    ELSE IF payload_type(msg) \in {"Block", "FinalizationRecord"} THEN Range(r.dedup_long)
    ELSE {}

HasWindow(msg) == payload_type(msg) \in {"Transaction", "Block", "FinalizationRecord"}

InboundQueues(r) == <<r.high_priority, r.low_priority>>

C16_RebroadcastOnlyAfterConsensus ==
    (last.op = "process_external_gs_entry" /\ last.rebroadcast) =>
        /\ last.request.distribution_mode = "Broadcast"
        /\ ~last.before_consensus
        /\ is_rebroadcastable(last.consensus_result)
        /\ ~last.catching_up

\* C17: handle_pkt_out rejects a payload shorter than two bytes or of unknown
\* type and enqueues nothing; it puts a transaction on the low-priority queue
\* and any other packet on the high-priority queue; if that queue is full the
\* packet is dropped, the drop counter of that queue goes up by one, and the
\* call returns Ok
C17_InboundQueueByType ==
    [][(last'.op = "process_message" /\ last'.outcome \in {"forwarded", "rejected"}) =>
          LET msg == last'.message.payload
              low == payload_type(msg) = "Transaction"
              queue(r) == IF low THEN r.low_priority ELSE r.high_priority
              other(r) == IF low THEN r.high_priority ELSE r.low_priority
              drops(r) == IF low THEN r.stats.inbound_low_priority_consensus_drops
                          ELSE r.stats.inbound_high_priority_consensus_drops
              other_drops(r) == IF low THEN r.stats.inbound_high_priority_consensus_drops
                                ELSE r.stats.inbound_low_priority_consensus_drops
          IN  IF Len(msg) < 2 \/ payload_type(msg) = "Unknown"
              THEN /\ last'.outcome = "rejected"
                   /\ InboundQueues(router') = InboundQueues(router)
                   /\ router'.stats = router.stats
              ELSE /\ last'.outcome = "forwarded"
                   /\ other(router') = other(router)
                   /\ other_drops(router') = other_drops(router)
                   /\ IF Len(queue(router)) < InboundQueueCapacity
                      THEN /\ Len(queue(router')) = Len(queue(router)) + 1
                           /\ queue(router')[Len(queue(router'))].payload = msg
                           /\ SubSeq(queue(router'), 1, Len(queue(router))) = queue(router)
                           /\ drops(router') = drops(router)
                      ELSE /\ queue(router') = queue(router)
                           /\ drops(router') = drops(router) + 1]_vars

\* the low-priority queue was full when a second transaction arrived
C17_Witness ==
    /\ last.op = "process_message"
    /\ last.outcome = "forwarded"
    /\ payload_type(last.message.payload) = "Transaction"
    /\ router.stats.inbound_low_priority_consensus_drops = 1
    /\ Len(router.low_priority) = InboundQueueCapacity

\* ------------------------------------------------------------------------
\* accept on a node with a hard connection limit
\* ------------------------------------------------------------------------
ConfigWithLimit(peer_type, limit) ==
    [Config(peer_type, 100, MaxToken) EXCEPT !.hard_connection_limit = limit]

InitAccept ==
    /\ \E tokens \in SUBSET (1..MaxToken) :
       \E kinds \in [tokens -> ConnectionKinds] :
          /\ connections = [t \in tokens |-> EstablishedConnection(t, kinds[t])]
          /\ next_id = NextIdAfter(tokens)
    /\ kvs = {}
    /\ config \in {ConfigWithLimit(peer_type, limit) :
                      peer_type \in PeerTypes, limit \in {None} \cup 1..MaxToken}
    /\ last = [op |-> "new"]
    /\ OffTableInit

NextAccept == \E addr \in Addrs : accept(addr)

SpecAccept == InitAccept /\ [][NextAccept]_vars

\* C19: on a node of kind Node with hard_connection_limit = L, accept adds no
\* connection to a table of L or more connections; accept adds no connection
\* whose address is that of a connection of the table; an accept that adds
\* nothing leaves the table as it was
C19_AcceptRespectsLimit ==
    [][last'.op = "accept" =>
          LET saturated == /\ config.peer_type = "Node"
                           /\ config.hard_connection_limit # None
                           /\ Cardinality(DOMAIN connections)
                                  >= config.hard_connection_limit
              duplicate == \E t \in DOMAIN connections :
                               connections[t].addr = last'.addr
          IN  IF saturated \/ duplicate
              THEN connections' = connections /\ next_id' = next_id
              ELSE /\ DOMAIN connections' = DOMAIN connections \cup {next_id}
                   /\ connections'[next_id].addr = last'.addr
                   /\ \A t \in DOMAIN connections : connections'[t] = connections[t]]_vars

\* an accept from a new address was rejected by a table at its limit
C19_Witness ==
    /\ last.op = "accept"
    /\ last.rejected
    /\ config.peer_type = "Node"
    /\ Cardinality(DOMAIN connections) = config.hard_connection_limit
    /\ \A t \in DOMAIN connections : connections[t].addr # last.addr

\* ------------------------------------------------------------------------
\* The poll thread of spawn
\* ------------------------------------------------------------------------
\* the tokens process_network_events collects: a connection whose pending
\* messages could not be written or flushed, or whose read failed
to_remove_write_errors(write_failed, read_failed) == write_failed

to_remove(write_failed, read_failed) == write_failed \cup read_failed

RECURSIVE remove_connections(_, _)
remove_connections(conns, tokens) ==
    IF tokens = <<>> THEN conns
    ELSE remove_connections(remove_connection(conns, Head(tokens)), Tail(tokens))

\* process_network_events: on every connection the pending messages are
\* written out and the socket is read; the connections that failed are removed
process_network_events(conns, write_failed, read_failed) ==
    remove_connections(
        [t \in DOMAIN conns |-> [conns[t] EXCEPT !.pending_messages = <<>>]],
        SetToSeq(to_remove(write_failed, read_failed)))

\* the loop waits in poll; a SERVER event announces a connection to accept
Poll(server_event) ==
    /\ poll.thread = "poll"
    /\ server_event => next_id <= MaxToken
    /\ poll' = [poll EXCEPT
                   !.thread = IF server_event THEN "accept" ELSE "process_network_events",
                   !.server_event = server_event,
                   !.iterations_terminated =
                       IF poll.is_terminated /\ @ < 2 THEN @ + 1 ELSE @]
    /\ last' = [op |-> "poll"]
    /\ UNCHANGED <<table_vars, stream_vars, router, directory_vars>>

PollAccept(addr) ==
    /\ poll.thread = "accept"
    /\ accept_handler(addr)
    /\ poll' = [poll EXCEPT !.thread = "process_network_events"]
    /\ UNCHANGED <<stream_vars, router, directory_vars>>

ProcessNetworkEvents(write_failed, read_failed) ==
    /\ poll.thread = "process_network_events"
    /\ connections' = process_network_events(connections, write_failed, read_failed)
    /\ poll' = [poll EXCEPT !.thread = "periodic"]
    /\ last' = [op |-> "process_network_events",
                write_failed |-> write_failed, read_failed |-> read_failed]
    /\ UNCHANGED <<next_id, kvs, config, stream_vars, router, directory_vars>>

\* the periodic tasks are not due: the loop starts over
PeriodicNotDue ==
    /\ poll.thread = "periodic"
    /\ poll' = [poll EXCEPT !.thread = "poll"]
    /\ last' = [op |-> "periodic", due |-> FALSE]
    /\ UNCHANGED <<table_vars, stream_vars, router, directory_vars>>

\* the housekeeping interval has elapsed and the termination switch is set
PeriodicBreak ==
    /\ poll.thread = "periodic"
    /\ poll.is_terminated
    /\ poll' = [poll EXCEPT !.thread = "exited"]
    /\ last' = [op |-> "periodic", due |-> TRUE]
    /\ UNCHANGED <<table_vars, stream_vars, router, directory_vars>>

\* the housekeeping interval has elapsed: connection_housekeeping
PeriodicHousekeeping(faulty, expired, nodes) ==
    /\ poll.thread = "periodic"
    /\ ~poll.is_terminated
    /\ connection_housekeeping_handler(faulty, expired, nodes)
    /\ poll' = [poll EXCEPT !.thread = "measure_connection_latencies"]
    /\ UNCHANGED <<stream_vars, router, directory_vars>>

\* measure_connection_latencies: a ping to the post-handshake connections
\* that were seen after their last ping
measure_connection_latencies(conns, seen_after_ping) ==
    [t \in DOMAIN conns |->
        IF is_post_handshake(conns[t]) /\ t \in seen_after_ping
        THEN async_send(conns[t], Msg("Ping")) ELSE conns[t]]

MeasureConnectionLatencies(seen_after_ping) ==
    /\ poll.thread = "measure_connection_latencies"
    /\ \A t \in seen_after_ping : HasRoom(connections[t], 1)
    /\ connections' =
          IF config.peer_type # "Bootstrapper"
          THEN measure_connection_latencies(connections, seen_after_ping)
          ELSE connections
    /\ poll' = [poll EXCEPT !.thread = "poll"]
    /\ last' = [op |-> "measure_connection_latencies"]
    /\ UNCHANGED <<next_id, kvs, config, stream_vars, router, directory_vars>>

\* P2PNode::close sets the termination switch
Close ==
    /\ ~poll.is_terminated
    /\ poll' = [poll EXCEPT !.is_terminated = TRUE]
    /\ last' = [op |-> "close"]
    /\ UNCHANGED <<table_vars, stream_vars, router, directory_vars>>

\* P2PNode::join returns once the poll thread has left its loop
Join ==
    /\ poll.thread = "exited"
    /\ ~poll.joined
    /\ poll' = [poll EXCEPT !.joined = TRUE]
    /\ last' = [op |-> "join"]
    /\ UNCHANGED <<table_vars, stream_vars, router, directory_vars>>

\* a node whose poll thread is running, at the head of its loop
InitPoll ==
    /\ \E tokens \in SUBSET (1..MaxToken) :
       \E kinds \in [tokens -> ConnectionKinds] :
          /\ connections = [t \in tokens |-> EstablishedConnection(t, kinds[t])]
          /\ next_id = NextIdAfter(tokens)
    /\ kvs = {}
    /\ config \in ConfigSpace
    /\ last = [op |-> "new"]
    /\ StreamInit
    /\ DirectoryInit
    /\ router = NewRouter
    /\ poll = [NewPoll EXCEPT !.thread = "poll"]

NextPoll ==
    \/ \E server_event \in BOOLEAN : Poll(server_event)
    \/ \E addr \in Addrs : PollAccept(addr)
    \/ \E write_failed \in SUBSET DOMAIN connections :
       \E read_failed \in SUBSET (DOMAIN connections \ write_failed) :
          ProcessNetworkEvents(write_failed, read_failed)
    \/ PeriodicNotDue
    \/ PeriodicBreak
    \/ \E expired \in SUBSET DOMAIN connections :
       \E faulty \in SUBSET (DOMAIN connections \ expired),
          nodes \in {<<>>} \cup {<<a>> : a \in BootstrapAddrs} :
          PeriodicHousekeeping(faulty, expired, nodes)
    \/ \E seen_after_ping \in SUBSET DOMAIN connections :
          MeasureConnectionLatencies(seen_after_ping)
    \/ Close
    \/ Join

SpecPoll == InitPoll /\ [][NextPoll]_vars

\* C20: once close has set the termination switch, at most one iteration of
\* the loop starts with the switch set; the thread then leaves the loop
C20_LoopEndsOnNextIteration == poll.iterations_terminated <= 1

\* ------------------------------------------------------------------------
\* Iterations of the loop without a new connection and without housekeeping
\* ------------------------------------------------------------------------
\* what a connection of the table may hold in its pending queue
PendingChoices(kind) ==
    IF kind.status = "PostHandshake" THEN {<<>>, <<Msg("Ping")>>} ELSE {<<>>}

InitEvents ==
    /\ \E tokens \in SUBSET (1..MaxToken) :
       \E kinds \in [tokens -> ConnectionKinds] :
       \E pending \in [tokens -> {<<>>, <<Msg("Ping")>>}] :
          /\ \A t \in tokens : pending[t] \in PendingChoices(kinds[t])
          /\ connections =
                [t \in tokens |->
                    [EstablishedConnection(t, kinds[t]) EXCEPT
                        !.pending_messages = pending[t]]]
          /\ next_id = NextIdAfter(tokens)
    /\ kvs = {}
    /\ config = Config("Node", 100, MaxToken)
    /\ last = [op |-> "new"]
    /\ StreamInit
    /\ DirectoryInit
    /\ router = NewRouter
    /\ poll = [NewPoll EXCEPT !.thread = "poll"]

NextEvents ==
    \/ Poll(FALSE)
    \/ \E write_failed \in SUBSET DOMAIN connections :
       \E read_failed \in SUBSET (DOMAIN connections \ write_failed) :
          ProcessNetworkEvents(write_failed, read_failed)
    \/ PeriodicNotDue

SpecEvents == InitEvents /\ [][NextEvents]_vars

MaxStamp == 1
\* the largest number of peers get_random_nodes is asked for
MaxAmount == 1

\* the networks peers are registered on and queries ask for
BucketNetworkSets == {{}, {1}, {2}}

\* P2PPeer::from
P2PPeer_from(peer_type, id, addr) == [id |-> id, addr |-> addr, peer_type |-> peer_type]

\* the peers the directory is told about
BucketPeers ==
    {P2PPeer_from(t, id, addr) : t \in PeerTypes, id \in P2PNodeIds,
                                 addr \in {<<1, 1>>, <<1, 2>>}}

\* Option<&P2PPeer>::None
NoSender == [id |-> None, addr |-> <<0, 0>>, peer_type |-> NoPeerType]

\* the peers a query excludes
Senders == {P2PPeer_from("Node", id, <<1, 1>>) : id \in {1, SelfId}}

\* a derived PartialEq would compare every field
P2PPeer_eq_derived(a, b) == a = b

\* impl PartialEq for P2PPeer: two peers are equal when their ids are
P2PPeer_eq(a, b) == a.id = b.id

\* impl PartialEq for Node
Node_eq(a, b) == P2PPeer_eq(a.peer, b.peer)

Node(peer, networks, last_seen) ==
    [peer |-> peer, networks |-> networks, last_seen |-> last_seen]

\* HashSet::insert: a value equal to one already present is not added
HashSet_insert(set, value) ==
    IF \E n \in set : Node_eq(n, value) THEN set ELSE set \cup {value}

\* HashSet::replace: the value takes the place of the equal one, if any
HashSet_replace(set, value) ==
    {n \in set : ~Node_eq(n, value)} \cup {value}

insert_into_bucket(bucket, peer, networks, stamp) ==
    HashSet_insert(bucket, Node(peer, networks, stamp))

update_network_ids(bucket, peer, networks, stamp) ==
    HashSet_replace(bucket, Node(peer, networks, stamp))

\* a filter that forgets the peer type
filter_criteria_any_type(node, sender, networks) ==
    /\ (sender # NoSender => ~P2PPeer_eq(node.peer, sender))
    /\ (networks = {} \/ node.networks \cap networks # {})

\* the closure filter_criteria of get_all_nodes
filter_criteria(node, sender, networks) ==
    /\ node.peer.peer_type = "Node"
    /\ (sender # NoSender => ~P2PPeer_eq(node.peer, sender))
    /\ (networks = {} \/ node.networks \cap networks # {})

get_all_nodes(bucket, sender, networks) ==
    {node.peer : node \in {n \in bucket : filter_criteria(n, sender, networks)}}

\* get_random_nodes: choose_multiple picks min(amount, len) distinct elements
get_random_nodes(bucket, sender, amount, networks) ==
    LET all == get_all_nodes(bucket, sender, networks)
    IN  {picked \in SUBSET all :
            Cardinality(picked) = Min(amount, Cardinality(all))}

clean_buckets(bucket, stamp, timeout_bucket_entry_period) ==
    LET clean_since == stamp - timeout_bucket_entry_period
    IN  {entry \in bucket : entry.last_seen >= clean_since}

InsertIntoBucket(peer, networks) ==
    /\ buckets' = insert_into_bucket(buckets, peer, networks, now)
    /\ last' = [op |-> "insert_into_bucket", peer |-> peer,
                known |-> \E n \in buckets : P2PPeer_eq(n.peer, peer)]
    /\ UNCHANGED <<table_vars, stream_vars, service_vars, now>>

UpdateNetworkIds(peer, networks) ==
    /\ buckets' = update_network_ids(buckets, peer, networks, now)
    /\ last' = [op |-> "update_network_ids", peer |-> peer,
                known |-> \E n \in buckets : P2PPeer_eq(n.peer, peer)]
    /\ UNCHANGED <<table_vars, stream_vars, service_vars, now>>

GetAllNodes(sender, networks) ==
    /\ last' = [op |-> "get_all_nodes", sender |-> sender, networks |-> networks,
                nodes |-> get_all_nodes(buckets, sender, networks)]
    /\ UNCHANGED <<table_vars, off_table_vars>>

GetRandomNodes(sender, amount, networks) ==
    /\ \E picked \in get_random_nodes(buckets, sender, amount, networks) :
            last' = [op |-> "get_random_nodes", sender |-> sender,
                     networks |-> networks, amount |-> amount, nodes |-> picked]
    /\ UNCHANGED <<table_vars, off_table_vars>>

\* the u64 subtraction of clean_buckets needs period <= now
CleanBuckets(timeout_bucket_entry_period) ==
    /\ timeout_bucket_entry_period <= now
    /\ buckets' = clean_buckets(buckets, now, timeout_bucket_entry_period)
    /\ last' = [op |-> "clean_buckets"]
    /\ UNCHANGED <<table_vars, stream_vars, service_vars, now>>

\* time passes, up to the end of the modelled time span
TickUntil(limit) ==
    /\ now < limit
    /\ now' = now + 1
    /\ last' = [op |-> "tick"]
    /\ UNCHANGED <<table_vars, stream_vars, service_vars, buckets>>

Tick == TickUntil(MaxStamp)

NextBuckets ==
    \/ \E peer \in BucketPeers, networks \in BucketNetworkSets :
            InsertIntoBucket(peer, networks)
    \/ \E peer \in BucketPeers, networks \in BucketNetworkSets :
            UpdateNetworkIds(peer, networks)
    \/ \E sender \in Senders \cup {NoSender}, networks \in BucketNetworkSets :
            GetAllNodes(sender, networks)
    \/ \E sender \in Senders, amount \in 0..MaxAmount,
          networks \in BucketNetworkSets :
            GetRandomNodes(sender, amount, networks)
    \/ \E period \in 0..MaxStamp : CleanBuckets(period)
    \/ Tick

SpecBuckets == InitFrame /\ [][NextBuckets]_vars

\* the bucket peers of type Node that differ from the sender and are registered
\* on one of the requested networks
SharingPeers(sender, networks) ==
    {n.peer : n \in {m \in buckets :
        /\ m.peer.peer_type = "Node"
        /\ m.peer.id # sender.id
        /\ m.networks \cap networks # {}}}

\* the same, where an empty request stands for every network
EligiblePeers(sender, networks) ==
    {n.peer : n \in {m \in buckets :
        /\ m.peer.peer_type = "Node"
        /\ m.peer.id # sender.id
        /\ (networks = {} \/ m.networks \cap networks # {})}}

\* C21 as stated: get_all_nodes returns exactly the Node peers that differ from
\* the sender and share a network with the request, get_random_nodes at most
\* `amount` of them, and neither returns a Bootstrapper.
C21_QueriesReturnSharingNodes ==
    /\ last.op = "get_all_nodes" =>
            last.nodes = SharingPeers(last.sender, last.networks)
    /\ last.op = "get_random_nodes" =>
            /\ Cardinality(last.nodes) <= last.amount
            /\ last.nodes \subseteq SharingPeers(last.sender, last.networks)
    /\ last.op \in {"get_all_nodes", "get_random_nodes"} =>
            \A p \in last.nodes : p.peer_type # "Bootstrapper"

\* C21 amended: get_all_nodes returns exactly the Node peers that differ from
\* the sender and share a network with the request or, when the request names
\* no network, all Node peers that differ from the sender; get_random_nodes
\* returns at most `amount` distinct peers of that set; neither returns a
\* Bootstrapper.
C21_QueriesReturnEligibleNodes ==
    /\ last.op = "get_all_nodes" =>
            last.nodes = EligiblePeers(last.sender, last.networks)
    /\ last.op = "get_random_nodes" =>
            /\ Cardinality(last.nodes) <= last.amount
            /\ last.nodes \subseteq EligiblePeers(last.sender, last.networks)
    /\ last.op \in {"get_all_nodes", "get_random_nodes"} =>
            \A p \in last.nodes : p.peer_type # "Bootstrapper"

\* a query by a sender that is in the bucket, next to a Bootstrapper and to a
\* Node it returns
C21_Witness ==
    /\ last.op = "get_all_nodes"
    /\ last.nodes # {}
    /\ last.networks # {}
    /\ \E n \in buckets : n.peer.peer_type = "Bootstrapper"
                          /\ n.networks \cap last.networks # {}

\* C22: the bucket holds at most one entry per peer id.
C22_OneEntryPerPeerId ==
    \A a, b \in buckets : a.peer.id = b.peer.id => a = b

\* an insert of a known id under another address
C22_Witness ==
    /\ last.op = "insert_into_bucket"
    /\ last.known
    /\ \E n \in buckets : n.peer.id = last.peer.id /\ n.peer.addr # last.peer.addr

\* ------------------------------------------------------------------------
\* The catch-up peer list (plugins/consensus.rs)
\* ------------------------------------------------------------------------
\* the time a peer is given to answer a catch-up request
MAX_CATCH_UP_TIME == 1
\* the end of the modelled time span
MaxClock == MAX_CATCH_UP_TIME + 2

\* the peers that never answer
SilentPeers == {1}

\* an ordering that puts Pending peers before the ones catching up
status_order_pending_first(status) ==
    IF status = "Pending" THEN 2 ELSE IF status = "CatchingUp" THEN 1 ELSE 0

\* the ordering of PeerState: CatchingUp before Pending before UpToDate
status_order(status) ==
    IF status = "CatchingUp" THEN 2 ELSE IF status = "Pending" THEN 1 ELSE 0

\* a peek that takes any peer of the list
peek_any(peers) == DOMAIN peers

\* PriorityQueue::peek: a peer whose state is the greatest; among peers of one
\* status the stamp of their state decides, which the model leaves open
peek(peers) ==
    {id \in DOMAIN peers :
        \A other \in DOMAIN peers :
            status_order(peers[other]) <= status_order(peers[id])}

get_node_peer_ids(conns) ==
    {conns[t].remote_id : t \in get_peer_stats(conns, "Node")}

\* a reconciliation that only adds peers
update_peer_list_keeps_all(peers, peer_ids) ==
    [id \in DOMAIN peers \cup peer_ids |->
        IF id \in DOMAIN peers THEN peers[id] ELSE "Pending"]

\* a reconciliation that forgets the status of the peers it keeps
update_peer_list_resets_status(peers, peer_ids) ==
    [id \in peer_ids |-> "Pending"]

\* update_peer_list: peers without a connection leave, new ones are Pending
update_peer_list(peers, peer_ids) ==
    [id \in peer_ids |-> IF id \in DOMAIN peers THEN peers[id] ELSE "Pending"]

UpdatePeerList ==
    /\ router' = [router EXCEPT
                     !.peers = update_peer_list(@, get_node_peer_ids(connections))]
    /\ last' = [op |-> "update_peer_list",
                dropped |-> DOMAIN router.peers \ get_node_peer_ids(connections),
                added |-> get_node_peer_ids(connections) \ DOMAIN router.peers]
    /\ UNCHANGED <<table_vars, stream_vars, poll, directory_vars>>

\* send_catch_up_status: the target is CatchingUp from now on, and the status
\* message is sent to it directly
send_catch_up_status(target) ==
    /\ AllHaveRoom
    /\ router' = [router EXCEPT !.peers[target] = "CatchingUp",
                                !.catch_up_stamp = now]
    /\ connections' = process_direct_packet(connections, SelfId, target, 1)

\* check_peer_states: the peer at the top of the queue decides what is done
CheckPeerStates ==
    /\ IF router.peers = <<>>
       THEN /\ UNCHANGED <<connections, router>>
            /\ last' = [op |-> "check_peer_states", id |-> None, status |-> "None",
                        timed_out |-> FALSE, start_baker |-> FALSE]
       ELSE \E id \in peek(router.peers) :
            LET status == router.peers[id]
                timed_out == now > router.catch_up_stamp + MAX_CATCH_UP_TIME
                tokens == find_connection_by_id(connections, id)
            IN  /\ IF status = "CatchingUp"
                   THEN /\ IF timed_out /\ tokens # {}
                           THEN \E token \in tokens :
                                   connections' = remove_connection(connections, token)
                           ELSE UNCHANGED connections
                        /\ UNCHANGED router
                   ELSE IF status = "Pending"
                   THEN send_catch_up_status(id)
                   ELSE UNCHANGED <<connections, router>>
                /\ last' = [op |-> "check_peer_states", id |-> id, status |-> status,
                            timed_out |-> timed_out,
                            start_baker |-> status = "UpToDate"]
    /\ UNCHANGED <<next_id, kvs, config, stream_vars, poll, directory_vars>>

\* process_external_gs_entry for a direct CatchUpStatus message of a peer
CatchUpReply(source_peer, consensus_result) ==
    /\ source_peer \in get_node_peer_ids(connections)
    /\ router' = [router EXCEPT
                     !.peers = update_peer_states(
                                   @, [source_peer |-> source_peer,
                                       variant |-> "CatchUpStatus",
                                       distribution_mode |-> "Direct"],
                                   consensus_result)]
    /\ last' = [op |-> "process_external_gs_entry", source_peer |-> source_peer,
                consensus_result |-> consensus_result]
    /\ UNCHANGED <<table_vars, stream_vars, poll, directory_vars>>

CatchUpTick == TickUntil(MaxClock)

\* the connections of a node in the middle of a catch-up: the silent peer,
\* possibly connected twice, possibly next to a second peer
CatchUpTables ==
    {[t \in tokens |->
        EstablishedConnection(t, [status |-> "PostHandshake", peer_type |-> "Node",
                                  remote_id |-> IF t = 3 THEN 2 ELSE 1,
                                  networks |-> {1}])] :
     tokens \in {{1}, {1, 2}, {1, 3}, {1, 2, 3}}}

\* the silent peer was sent a catch-up request at stamp 0
InitCatchUp ==
    /\ connections \in CatchUpTables
    /\ next_id = 4
    /\ kvs = {}
    /\ config = Config("Node", 100, MaxToken)
    /\ last = [op |-> "new"]
    /\ StreamInit
    /\ poll = NewPoll
    /\ DirectoryInit
    /\ \E others \in [get_node_peer_ids(connections) \ SilentPeers ->
                        {"Pending", "UpToDate"}] :
          router = [NewRouter EXCEPT
                       !.peers = [id \in get_node_peer_ids(connections) |->
                                     IF id \in SilentPeers THEN "CatchingUp"
                                     ELSE others[id]]]

NextCatchUp ==
    \/ CheckPeerStates
    \/ UpdatePeerList
    \/ \E source_peer \in P2PNodeIds \ SilentPeers,
          consensus_result \in ConsensusFfiResponses :
          CatchUpReply(source_peer, consensus_result)
    \/ \E token \in DOMAIN connections : send_pending_messages(token)
    \/ CatchUpTick

\* the consensus loop keeps checking the peer states and reconciling the list,
\* the poll loop keeps writing out pending messages, and time passes
SpecCatchUp ==
    /\ InitCatchUp
    /\ [][NextCatchUp]_vars
    /\ SF_vars(CheckPeerStates)
    /\ WF_vars(UpdatePeerList)
    /\ WF_vars(\E token \in DOMAIN connections : send_pending_messages(token))
    /\ WF_vars(CatchUpTick)

IsCatchingUp(id) == id \in DOMAIN router.peers /\ router.peers[id] = "CatchingUp"

HandshakeReadSize == PAYLOAD_SIZE + DHLEN * 2 + MAC_LENGTH * 2 + 2

\* proofs a peer may put into message A
Proofs == {PSK, <<8>>}

\* declared lengths a peer may put on the stream
DeclaredLengths ==
    {0, 1, 2, HANDSHAKE_SIZE_LIMIT - 1, HANDSHAKE_SIZE_LIMIT, HANDSHAKE_SIZE_LIMIT + 1,
     PROTOCOL_MAX_MESSAGE_SIZE - 1, PROTOCOL_MAX_MESSAGE_SIZE,
     PROTOCOL_MAX_MESSAGE_SIZE + 1}

\* Connection::new: both ends start their noise session
InitHandshake ==
    /\ connections = <<>>
    /\ next_id = 1
    /\ kvs = {}
    /\ config = [Config("Node", 100, MaxToken) EXCEPT
                    !.socket_read_size = HandshakeReadSize]
    /\ last = [op |-> "new"]
    /\ writer = [NewWriter EXCEPT !.noise_session = init_session(TRUE),
                                  !.socket_buffer = SocketBuffer_new(HandshakeReadSize)]
    /\ reader = [NewReader EXCEPT !.noise_session = init_session(FALSE),
                                  !.socket_buffer = SocketBuffer_new(HandshakeReadSize)]
    /\ socket = <<>>
    /\ replies = <<>>
    /\ trace = NewTrace
    /\ ServiceInit
    /\ DirectoryInit

\* the opening end sends message A with a proof: the node's own
\* send_handshake_message_a carries PSK, another program may carry anything
SendMessageA(proof) ==
    \E w \in send_xx_msg(WriterLowLevel, socket, DHLEN, proof, HandshakePad) :
        /\ writer.noise_session.message_count = 0
        /\ ~writer.failed
        /\ w.ok
        /\ writer' = WithLowLevel(writer, w.ll)
        /\ socket' = w.socket
        /\ trace' = [trace EXCEPT
                        !.queued = @ \o Appended(WriterLowLevel,
                                                 send_xx_msg(WriterLowLevel, socket, DHLEN,
                                                             proof, HandshakePad), socket),
                        !.wire = @ \o SubSeq(w.socket, Len(socket) + 1, Len(w.socket))]
        /\ last' = [op |-> "send_handshake_message_a", proof |-> proof]
        /\ UNCHANGED <<table_vars, reader, replies, service_vars, directory_vars>>

SendHandshakeMessageA == SendMessageA(PSK)

ForeignMessageA == \E proof \in Proofs \ {PSK} : SendMessageA(proof)

\* the poll loop of the opening end reads what the accepting end has sent
ReadReplies ==
    \E r \in read_stream(WriterLowLevel, replies, socket, NoProgress) :
        /\ ~writer.failed
        /\ replies # <<>> \/ writer.socket_buffer.remaining # 0
        /\ writer' = [WithLowLevel(writer, r.ll) EXCEPT !.failed = ~r.ok]
        /\ replies' = r.socket
        /\ socket' = r.out
        /\ trace' = [trace EXCEPT
                        !.handshake = @ \o r.hs,
                        !.wire = @ \o SubSeq(r.out, Len(socket) + 1, Len(r.out))]
        /\ last' = [op |-> "read_replies", processed |-> r.processed, ok |-> r.ok]
        /\ UNCHANGED <<table_vars, reader, service_vars, directory_vars>>

\* the poll loop of the accepting end flushes its output queue
FlushReplies ==
    \E w \in flush_socket(ReaderLowLevel, replies) :
        /\ reader.output_queue # <<>>
        /\ ~reader.failed
        /\ reader' = [reader EXCEPT !.output_queue = w.ll.output_queue,
                                    !.socket_buffer = w.ll.socket_buffer]
        /\ replies' = w.socket
        /\ last' = [op |-> "flush_replies"]
        /\ UNCHANGED <<table_vars, writer, socket, trace, service_vars, directory_vars>>

\* a peer queues the length prefix of a frame for the accepting end
DeclareLength ==
    \E len \in DeclaredLengths :
        /\ trace.wire = <<>>
        /\ writer.output_queue = <<>>
        /\ writer' = [writer EXCEPT !.output_queue = to_be_bytes(len)]
        /\ trace' = [trace EXCEPT !.queued = to_be_bytes(len)]
        /\ last' = [op |-> "declare_length", len |-> len]
        /\ UNCHANGED <<table_vars, reader, socket, replies, service_vars, directory_vars>>

\* a peer sends a frame to the opening end before any message A
EarlyFrame ==
    /\ writer.noise_session.message_count = 0
    /\ ~writer.failed
    /\ replies = <<>>
    /\ replies' = to_be_bytes(1) \o <<0>>
    /\ last' = [op |-> "early_frame"]
    /\ UNCHANGED <<table_vars, writer, reader, socket, trace, service_vars, directory_vars>>

\* the first message the opening end writes once its handshake is complete
FirstMessage == trace.written = <<>> /\ WriteMessage(<<2, 1>>)

NextHandshake ==
    \/ SendHandshakeMessageA
    \/ ForeignMessageA
    \/ ReadStream
    \/ ReadReplies
    \/ FlushSocket
    \/ FlushReplies
    \/ FirstMessage
    \/ EarlyFrame

SpecHandshake == InitHandshake /\ [][NextHandshake]_vars

\* the sessions of an accepting end: before message A, between B and C, and
\* after the handshake
ReaderSessions ==
    {init_session(FALSE),
     [init_session(FALSE) EXCEPT !.message_count = 2],
     EstablishedSession(FALSE)}

InitLength ==
    /\ connections = <<>>
    /\ next_id = 1
    /\ kvs = {}
    /\ config = Config("Node", 100, MaxToken)
    /\ last = [op |-> "new"]
    /\ writer = NewWriter
    /\ \E session \in ReaderSessions : reader = [NewReader EXCEPT !.noise_session = session]
    /\ socket = <<>>
    /\ replies = <<>>
    /\ trace = NewTrace
    /\ ServiceInit
    /\ DirectoryInit

NextLength ==
    \/ DeclareLength
    \/ FlushSocket
    \/ ReadStream

SpecLength == InitLength /\ [][NextLength]_vars

\* the handshake messages an end has processed
Processed(is_initiator) ==
    SelectSeq(trace.handshake, LAMBDA e : e.is_initiator = is_initiator)

\* C24: once the accepting end has processed a message A whose payload is not
\* the preshared proof, its read has failed, the connection is closed and the
\* end is not post-handshake
C24_WrongProofClosesConnection ==
    (\E i \in DOMAIN trace.handshake :
        /\ trace.handshake[i].step = "A"
        /\ trace.handshake[i].payload # PSK)
    => reader.failed /\ ~ll_is_post_handshake(reader)

\* the accepting end has completed the handshake with a peer whose message A,
\* delivered whole, carried another proof
C24_AcceptedWrongProof ==
    /\ Len(Processed(FALSE)) = 2
    /\ Processed(FALSE)[1].step = "A"
    /\ Processed(FALSE)[1].payload \in Proofs \ {PSK}
    /\ Processed(FALSE)[2].step = "C"
    /\ ll_is_post_handshake(reader)
    /\ ~reader.failed

\* the step, role and count of the handshake messages an end has processed
Steps(entries) ==
    [i \in DOMAIN entries |-> <<entries[i].step, entries[i].is_initiator, entries[i].count>>]

\* C25: the accepting end processes A at count 0 and then C at count 2, the
\* opening end B at count 1, and nothing else; a whole frame that reaches the
\* opening end before it has sent A fails its read; the opening end is
\* post-handshake exactly when it has processed B and sent C, the accepting end
\* exactly when it has processed C; a post-handshake end processes no further
\* handshake message, its frames are decrypted as payloads
C25_HandshakeOrder ==
    /\ [](/\ IsPrefix(Steps(Processed(FALSE)), <<<<"A", FALSE, 0>>, <<"C", FALSE, 2>>>>)
          /\ IsPrefix(Steps(Processed(TRUE)), <<<<"B", TRUE, 1>>>>)
          /\ ll_is_post_handshake(writer)
                <=> Processed(TRUE) # <<>> /\ writer.noise_session.message_count >= 3
          /\ ll_is_post_handshake(reader) <=> Len(Processed(FALSE)) = 2)
    /\ [][/\ (writer.noise_session.message_count = 0 /\ last'.op = "read_replies")
                => writer'.failed /\ trace'.handshake = trace.handshake
          /\ ll_is_post_handshake(reader) => Processed(FALSE)' = Processed(FALSE)
          /\ ll_is_post_handshake(writer) => Processed(TRUE)' = Processed(TRUE)
          /\ (ll_is_post_handshake(reader) /\ last'.op = "read_stream"
              /\ last'.processed # <<>>)
                => last'.ok /\ last'.processed = trace.written]_vars

\* both ends have completed the handshake in the order A, B, C and the
\* accepting end has then read the first message as a payload
C25_Witness ==
    /\ Steps(Processed(FALSE)) = <<<<"A", FALSE, 0>>, <<"C", FALSE, 2>>>>
    /\ Steps(Processed(TRUE)) = <<<<"B", TRUE, 1>>>>
    /\ last.op = "read_stream"
    /\ last.processed = <<<<2, 1>>>>
    /\ trace.received = <<HandshakeRequest, <<2, 1>>>>

\* a frame has reached the opening end before its message A and failed its read
C25_EarlyFrameWitness ==
    /\ last.op = "read_replies"
    /\ writer.failed
    /\ writer.noise_session.message_count = 0

\* the bytes read from the socket that the accepting end has still to consume
Unconsumed == slice(reader.socket_buffer, reader.socket_buffer.remaining)

\* C26: the bytes consumed into length prefixes and ciphertexts, followed by
\* those read and not yet consumed, are the bytes read from the socket, in
\* their order: none is consumed twice, skipped or reordered, before the
\* handshake is complete as well as after it
C26_EveryByteConsumedOnce ==
    ~reader.failed => trace.consumed \o Unconsumed = trace.taken

\* a read that ended in the middle of a handshake frame has left the bytes it
\* consumed in the buffer, to be consumed again
C26_ConsumedTwice ==
    /\ ~reader.failed
    /\ ~ll_is_post_handshake(reader)
    /\ reader.incoming_msg.pending_bytes # 0
    /\ reader.socket_buffer.remaining # 0
    /\ IsPrefix(trace.taken, trace.consumed \o Unconsumed)
    /\ trace.taken # trace.consumed \o Unconsumed

\* a read that ended a handshake frame has dropped the start of the next frame
C26_NextFrameDropped ==
    /\ ~reader.failed
    /\ reader.socket_buffer.remaining = 0
    /\ IsPrefix(trace.consumed, trace.taken)
    /\ trace.taken # trace.consumed

\* the length prefix has been read whole
LengthRead ==
    /\ Len(trace.taken) = PAYLOAD_SIZE
    /\ reader.socket_buffer.remaining = 0

\* C28: once the four bytes of a declared length are read, the read has failed
\* and closed the connection if the length is 0, if it is HANDSHAKE_SIZE_LIMIT
\* or more before the handshake is complete, or if it is above
\* PROTOCOL_MAX_MESSAGE_SIZE; any other length has become pending_bytes
C28_DeclaredLengthChecked ==
    LengthRead =>
        \E len \in DeclaredLengths :
            /\ to_be_bytes(len) = trace.taken
            /\ reader.failed <=>
                   \/ len = 0
                   \/ ~ll_is_post_handshake(reader) /\ len >= HANDSHAKE_SIZE_LIMIT
                   \/ len > PROTOCOL_MAX_MESSAGE_SIZE
            /\ ~reader.failed => /\ reader.incoming_msg.pending_bytes = len
                                 /\ reader.incoming_msg.size_bytes = <<>>

\* a length at the handshake limit was refused before the handshake
C28_Witness ==
    /\ LengthRead
    /\ trace.taken = to_be_bytes(HANDSHAKE_SIZE_LIMIT)
    /\ ~ll_is_post_handshake(reader)
    /\ reader.failed

\* the same length was accepted after the handshake
C28_AcceptedAfterHandshake ==
    /\ LengthRead
    /\ trace.taken = to_be_bytes(HANDSHAKE_SIZE_LIMIT)
    /\ ll_is_post_handshake(reader)
    /\ reader.incoming_msg.pending_bytes = HANDSHAKE_SIZE_LIMIT

\* ------------------------------------------------------------------------
\* What connection_housekeeping removes and what it leaves
\* ------------------------------------------------------------------------
\* C29: a connection that housekeeping has removed was a post-handshake
\* connection sharing its remote id with another one, or faulty, or past the
\* keep-alive that applies to it (post-handshake: that of the local peer kind,
\* pre-handshake: MAX_PREHANDSHAKE_KEEP_ALIVE), or picked by the random drop;
\* every other connection is still in the table
C29_OnlyListedConnectionsRemoved ==
    [][last'.op = "connection_housekeeping" =>
          \A t \in DOMAIN connections \ DOMAIN connections' :
              \/ t \in duplicates(connections)
              \/ t \in last'.faulty
              \/ t \in last'.expired
              \/ t \in last'.to_drop]_vars

\* housekeeping ran with nothing faulty, nothing expired and nothing dropped,
\* and a pre-handshake connection has left the table
C29_YoungPreHandshakeRemoved ==
    /\ last.op = "connection_housekeeping"
    /\ last.faulty = {} /\ last.expired = {} /\ last.to_drop = {}
    /\ last.duplicates = {}
    /\ \E t \in 1..(next_id - 1) : t \notin DOMAIN connections

\* the remote ids of a table of three connections
ExcessIds == <<1, 2, 4>>

\* what each of the three connections may be
ExcessKinds(token) ==
    {[status |-> "PreHandshake", peer_type |-> "Node", remote_id |-> None,
      networks |-> {}]}
    \cup {[status |-> "PostHandshake", peer_type |-> peer_type,
           remote_id |-> ExcessIds[token], networks |-> NetworkIds] :
             peer_type \in PeerTypes}

\* a node of kind Node whose table holds up to three connections to different
\* peers
InitExcess ==
    /\ \E tokens \in SUBSET DOMAIN ExcessIds :
       \E kinds \in [tokens -> UNION {ExcessKinds(t) : t \in DOMAIN ExcessIds}] :
          /\ \A t \in tokens : kinds[t] \in ExcessKinds(t)
          /\ connections = [t \in tokens |-> EstablishedConnection(t, kinds[t])]
          /\ next_id = NextIdAfter(tokens)
    /\ kvs = {}
    /\ config \in {Config("Node", 100, 1), Config("Node", 100, 2)}
    /\ last = [op |-> "new"]
    /\ OffTableInit

\* housekeeping while re-bootstrapping is not due
NextExcess ==
    \E expired \in SUBSET DOMAIN connections :
    \E faulty \in SUBSET (DOMAIN connections \ expired) :
       connection_housekeeping(faulty, expired, <<>>)

SpecExcess == InitExcess /\ [][NextExcess]_vars

\* C30: after connection_housekeeping on a node of kind Node, at most
\* max_allowed_nodes post-handshake connections to Node peers are in the table
C30_NodePeersWithinLimit ==
    (last.op = "connection_housekeeping" /\ config.peer_type = "Node")
    => Cardinality(get_peer_stats(connections, "Node")) <= config.max_allowed_nodes

\* the random drop has closed the connection to a bootstrapper and left more
\* Node peers than allowed
C30_BootstrapperDroppedInstead ==
    /\ last.op = "connection_housekeeping"
    /\ last.to_drop # {}
    /\ last.faulty = {} /\ last.expired = {}
    /\ Cardinality(get_peer_stats(connections, "Node")) > config.max_allowed_nodes

\* ------------------------------------------------------------------------
\* Errors while handling inbound messages: the failed_pkts statistic
\* ------------------------------------------------------------------------
\* handle_invalid_network_msg: a message that could not be parsed is counted
handle_invalid_network_msg(conn) == [conn EXCEPT !.failed_pkts = @ + 1]

HandleInvalidNetworkMsg(token) ==
    /\ token \in DOMAIN connections
    /\ connections[token].failed_pkts <= MAX_FAILED_PACKETS_ALLOWED
    /\ connections' = [connections EXCEPT ![token] = handle_invalid_network_msg(@)]
    /\ last' = [op |-> "handle_invalid_network_msg", token |-> token]
    /\ UNCHANGED <<next_id, kvs, config>>
    /\ UNCHANGED off_table_vars

\* handle_unban: the ban store afterwards and the handler's result
handle_unban(conn, peer) ==
    IF is_self_unban(conn, peer)
    THEN [result |-> "Err", kvs |-> kvs]
    ELSE [result |-> "Ok", kvs |-> kvs \ {serial(peer)}]

\* handle_incoming_message with an UnbanNode request: the handler's error is
\* logged and nothing else is done with it
HandleIncomingMessage(token, peer) ==
    /\ token \in DOMAIN connections
    /\ is_post_handshake(connections[token])
    /\ kvs' = handle_unban(connections[token], peer).kvs
    /\ last' = [op |-> "handle_incoming_message", token |-> token,
                result |-> handle_unban(connections[token], peer).result]
    /\ UNCHANGED <<connections, next_id, config>>
    /\ UNCHANGED off_table_vars

InitFailures ==
    /\ connections = RouterTable
    /\ next_id = 4
    /\ kvs \in SUBSET {serial(peer) : peer \in BannedNodes}
    /\ config = Config("Node", 100, 3)
    /\ last = [op |-> "new"]
    /\ OffTableInit

NextFailures ==
    \/ \E token \in DOMAIN connections : HandleInvalidNetworkMsg(token)
    \/ \E token \in DOMAIN connections, peer \in BannedNodes :
          HandleIncomingMessage(token, peer)
    \/ \E expired \in SUBSET DOMAIN connections :
       \E faulty \in SUBSET (DOMAIN connections \ expired) :
          connection_housekeeping(faulty, expired, <<>>)

SpecFailures == InitFailures /\ [][NextFailures]_vars

\* C31: every error while handling an inbound message, a message that cannot
\* be parsed as well as a handler that returns an error, adds one to the
\* failed_pkts of the connection, and a connection whose failed_pkts is above
\* MAX_FAILED_PACKETS_ALLOWED is not in the table after connection_housekeeping
C31_ErrorsCountedAndEvicted ==
    [][/\ last'.op = "handle_invalid_network_msg" =>
             connections'[last'.token].failed_pkts
                 = connections[last'.token].failed_pkts + 1
       /\ (last'.op = "handle_incoming_message" /\ last'.result = "Err") =>
             connections'[last'.token].failed_pkts
                 = connections[last'.token].failed_pkts + 1
       /\ last'.op = "connection_housekeeping" =>
             \A t \in DOMAIN connections :
                 connections[t].failed_pkts > MAX_FAILED_PACKETS_ALLOWED
                     => t \notin DOMAIN connections']_vars

\* the part of C31 that the code keeps: unparsable messages are counted and a
\* connection over the limit is evicted by housekeeping
C31_InvalidCountedAndEvicted ==
    [][/\ last'.op = "handle_invalid_network_msg" =>
             connections'[last'.token].failed_pkts
                 = connections[last'.token].failed_pkts + 1
       /\ last'.op = "connection_housekeeping" =>
             \A t \in DOMAIN connections :
                 connections[t].failed_pkts >= MAX_FAILED_PACKETS_ALLOWED
                     => t \notin DOMAIN connections']_vars

\* a handler has returned an error and the connection's failed_pkts is still 0
C31_HandlerErrorNotCounted ==
    /\ last.op = "handle_incoming_message"
    /\ last.result = "Err"
    /\ connections[last.token].failed_pkts = 0

\* ------------------------------------------------------------------------
\* Handshake, JoinNetwork and LeaveNetwork: the networks of the remote end
\* ------------------------------------------------------------------------
RemoteNetworks == {1, 2}
HandshakeIds == {1, 2}

add_remote_end_network(conn, network) ==
    [conn EXCEPT !.remote_end_networks = @ \cup {network}]

remove_remote_end_network(conn, network) ==
    [conn EXCEPT !.remote_end_networks = @ \ {network}]

\* RemotePeer::peer of a post-handshake connection
remote_peer_of(conn) ==
    P2PPeer_from(conn.peer_type, conn.remote_id,
                 <<conn.addr[1], conn.peer_external_port>>)

\* the bucket after handle_handshake_req / handle_handshake_resp of a peer
\* that is not banned
handshake_bucket(bucket, conn, remote_node_id, remote_port, networks) ==
    IF conn.peer_type # "Bootstrapper"
    THEN insert_into_bucket(bucket,
             P2PPeer_from(conn.peer_type, remote_node_id,
                          <<conn.addr[1], remote_port>>),
             networks, now)
    ELSE bucket

\* the networks a connection is expected to have after a Handshake: the set
\* it advertised
advertised(expected, token, networks) == [expected EXCEPT ![token] = networks]

HandleHandshakeReq(token, id, port, networks) ==
    /\ token \in DOMAIN connections
    /\ HasRoom(connections[token], 2)
    /\ connections' = handle_handshake_req(connections, token, id, port, networks)
    /\ buckets' = IF is_banned(ById(id))
                  THEN buckets
                  ELSE handshake_bucket(buckets, connections[token], id, port, networks)
    /\ last' = [op |-> "handle_handshake_req", token |-> token,
                networks |-> networks,
                expected |-> advertised(last.expected, token, networks)]
    /\ UNCHANGED <<next_id, kvs, config, stream_vars, service_vars, now>>

HandleHandshakeResp(token, id, port, networks) ==
    /\ token \in DOMAIN connections
    /\ HasRoom(connections[token], 1)
    /\ connections' = handle_handshake_resp(connections, token, id, port, networks)
    /\ buckets' = handshake_bucket(buckets, connections[token], id, port, networks)
    /\ last' = [op |-> "handle_handshake_resp", token |-> token,
                networks |-> networks,
                expected |-> advertised(last.expected, token, networks)]
    /\ UNCHANGED <<next_id, kvs, config, stream_vars, service_vars, now>>

HandleJoinNetworkReq(token, network) ==
    /\ token \in DOMAIN connections
    /\ is_post_handshake(connections[token])
    /\ connections' = [connections EXCEPT ![token] = add_remote_end_network(@, network)]
    /\ buckets' = update_network_ids(buckets, remote_peer_of(connections[token]),
                                     connections'[token].remote_end_networks, now)
    /\ last' = [op |-> "handle_join_network_req", token |-> token,
                networks |-> {network},
                expected |-> [last.expected EXCEPT ![token] = @ \cup {network}]]
    /\ UNCHANGED <<next_id, kvs, config, stream_vars, service_vars, now>>

HandleLeaveNetworkReq(token, network) ==
    /\ token \in DOMAIN connections
    /\ is_post_handshake(connections[token])
    /\ connections' = [connections EXCEPT ![token] = remove_remote_end_network(@, network)]
    /\ buckets' = update_network_ids(buckets, remote_peer_of(connections[token]),
                                     connections'[token].remote_end_networks, now)
    /\ last' = [op |-> "handle_leave_network_req", token |-> token,
                networks |-> {network},
                expected |-> [last.expected EXCEPT ![token] = @ \ {network}]]
    /\ UNCHANGED <<next_id, kvs, config, stream_vars, service_vars, now>>

\* two connections that have not completed their handshake, one to a node
\* and one to a bootstrapper; the node id 1 is banned
InitNetworks ==
    /\ connections = [t \in 1..2 |->
                         NewConnection(t, <<t, 1>>,
                                       IF t = 1 THEN "Node" ELSE "Bootstrapper")]
    /\ next_id = 3
    /\ kvs = {serial(ById(1))}
    /\ config = Config("Node", 100, 3)
    /\ last = [op |-> "new", expected |-> [t \in 1..2 |-> {}]]
    /\ OffTableInit

NextNetworks ==
    \/ \E token \in DOMAIN connections, id \in HandshakeIds,
          networks \in SUBSET RemoteNetworks :
            HandleHandshakeReq(token, id, 1, networks)
    \/ \E token \in DOMAIN connections, id \in HandshakeIds,
          networks \in SUBSET RemoteNetworks :
            HandleHandshakeResp(token, id, 1, networks)
    \/ \E token \in DOMAIN connections, network \in RemoteNetworks :
            HandleJoinNetworkReq(token, network)
    \/ \E token \in DOMAIN connections, network \in RemoteNetworks :
            HandleLeaveNetworkReq(token, network)

SpecNetworks == InitNetworks /\ [][NextNetworks]_vars

\* C32: after any sequence of Handshake, JoinNetwork and LeaveNetwork
\* messages on a connection, its remote_end_networks is the set advertised
\* in the last Handshake, plus the networks joined and minus the networks
\* left afterwards, in arrival order
C32_NetworksFromLastHandshake ==
    \A t \in DOMAIN connections :
        connections[t].remote_end_networks = last.expected[t]

\* what the handlers do: a Handshake adds its networks to the ones the
\* connection has, a JoinNetwork adds one and a LeaveNetwork removes one
C32_NetworksAccumulate ==
    [][\A t \in DOMAIN connections' :
          connections'[t].remote_end_networks =
              IF t # last'.token
              THEN connections[t].remote_end_networks
              ELSE IF last'.op = "handle_leave_network_req"
                   THEN connections[t].remote_end_networks \ last'.networks
                   ELSE connections[t].remote_end_networks \cup last'.networks]_vars

\* a second Handshake has left a network on the connection that it did not
\* advertise
C32_StaleNetworkKept ==
    /\ last.op \in {"handle_handshake_req", "handle_handshake_resp"}
    /\ last.token \in DOMAIN connections
    /\ connections[last.token].remote_end_networks # last.networks

\* ------------------------------------------------------------------------
\* handle_peer_list_resp: connecting to the peers of a PeerList response
\* ------------------------------------------------------------------------
\* tokens handed out while PeerList responses are handled
MaxPeerListToken == 5
\* the peers a PeerList response may name
ListedPeers == {P2PPeer_from("Node", id, <<id, 1>>) : id \in {1, 2, 4}}
PeerLists ==
    {<<>>} \cup {<<p>> : p \in ListedPeers}
           \cup {<<p, q>> : p \in ListedPeers, q \in ListedPeers}

\* the ids of the post-handshake Node peers
current_peer_ids(conns) ==
    {conns[t].remote_id : t \in get_peer_stats(conns, "Node")}

\* the filter applicable_candidates
applicable_candidates(conns, peers) ==
    SelectSeq(peers, LAMBDA candidate : candidate.id \notin current_peer_ids(conns))

\* one pass of the loop body: connect, and insert_into_bucket when it succeeded
peer_list_step(st, peer, reachable) ==
    IF connect_rejected(st.connections, "Node", peer.addr, peer.id,
                        peer.addr \in reachable)
    THEN [st EXCEPT !.attempted = @ \cup {peer}]
    ELSE [connections |-> add_connection(st.connections,
                              NewConnection(st.next_id, peer.addr, "Node")),
          next_id |-> st.next_id + 1,
          buckets |-> insert_into_bucket(st.buckets, peer, {}, now),
          new_peers |-> st.new_peers + 1,
          attempted |-> st.attempted \cup {peer},
          connected |-> st.connected \cup {peer}]

\* the loop over the candidates: the test that ends it follows the connect
RECURSIVE peer_list_loop(_, _, _, _)
peer_list_loop(st, candidates, curr_peer_count, reachable) ==
    IF candidates = <<>>
    THEN st
    ELSE LET after == peer_list_step(st, Head(candidates), reachable)
         IN  IF after.new_peers + curr_peer_count >= config.desired_nodes_count
             THEN after
             ELSE peer_list_loop(after, Tail(candidates), curr_peer_count, reachable)

handle_peer_list_resp(conns, token, bucket, peers, reachable) ==
    peer_list_loop([connections |-> conns, next_id |-> token, buckets |-> bucket,
                    new_peers |-> 0, attempted |-> {}, connected |-> {}],
                   applicable_candidates(conns, peers),
                   Cardinality(get_peer_stats(conns, "Node")),
                   reachable)

HandlePeerListResp(token, peers, reachable) ==
    /\ token \in DOMAIN connections
    /\ is_post_handshake(connections[token])
    /\ next_id + Len(peers) <= MaxPeerListToken + 1
    /\ LET done == handle_peer_list_resp(connections, next_id, buckets, peers, reachable)
       IN  /\ connections' = done.connections
           /\ next_id' = done.next_id
           /\ buckets' = done.buckets
           /\ last' = [op |-> "handle_peer_list_resp", peers |-> peers,
                       attempted |-> done.attempted, connected |-> done.connected,
                       new_peers |-> done.new_peers]
    /\ UNCHANGED <<kvs, config, stream_vars, service_vars, now>>

\* the handshake response of a peer the node connected to: the remote id is
\* the one of the address
PeerAnswers(token) ==
    /\ token \in DOMAIN connections
    /\ ~is_post_handshake(connections[token])
    /\ HasRoom(connections[token], 1)
    /\ connections' = handle_handshake_resp(connections, token,
                          connections[token].addr[1], 1, {})
    /\ buckets' = handshake_bucket(buckets, connections[token],
                                   connections[token].addr[1], 1, {})
    /\ last' = [op |-> "handle_handshake_resp"]
    /\ UNCHANGED <<next_id, kvs, config, stream_vars, service_vars, now>>

\* a node with one post-handshake Node peer, id 1, that wants one, two or
\* three peers and allows three
InitPeerList ==
    /\ connections = [t \in {1} |->
                         add_remote_end_networks(
                             promote_to_post_handshake(
                                 NewConnection(1, <<1, 1>>, "Node"), 1, 1), {})]
    /\ next_id = 2
    /\ kvs = {}
    /\ \E desired \in 1..3 :
          config = Config("Node", 100, 3) @@ [desired_nodes_count |-> desired]
    /\ last = [op |-> "new"]
    /\ OffTableInit

NextPeerList ==
    \/ \E token \in DOMAIN connections, peers \in PeerLists,
          reachable \in SUBSET {p.addr : p \in ListedPeers} :
            HandlePeerListResp(token, peers, reachable)
    \/ \E token \in DOMAIN connections : PeerAnswers(token)

SpecPeerList == InitPeerList /\ [][NextPeerList]_vars

\* desired_nodes_count - current_peers, or 0 when the node has that many
missing_peers(conns) ==
    LET current_peers == Cardinality(get_peer_stats(conns, "Node"))
    IN  IF config.desired_nodes_count > current_peers
        THEN config.desired_nodes_count - current_peers
        ELSE 0

\* the connections a step has added to the table
opened_connections == DOMAIN connections' \ DOMAIN connections

\* C33: on a PeerList response the handler tries to connect only to listed
\* peers that are not connected Node peers, opens at most
\* desired_nodes_count - current_peers connections, none when the node has
\* desired_nodes_count peers or more, and inserts into the buckets only
\* peers whose connect succeeded
C33_PeerListWithinDesired ==
    [][last'.op = "handle_peer_list_resp" =>
          /\ \A p \in last'.attempted :
                /\ \E i \in DOMAIN last'.peers : last'.peers[i] = p
                /\ p.id \notin current_peer_ids(connections)
          /\ Cardinality(opened_connections) <=
                missing_peers(connections)
          /\ \A n \in buckets' \ buckets : n.peer \in last'.connected]_vars

\* what the loop does: the first applicable candidate is tried whatever the
\* number of peers is, and the count is tested after the connect
C33_PeerListAtLeastOneAttempt ==
    [][last'.op = "handle_peer_list_resp" =>
          /\ \A p \in last'.attempted :
                /\ \E i \in DOMAIN last'.peers : last'.peers[i] = p
                /\ p.id \notin current_peer_ids(connections)
          /\ Cardinality(opened_connections) <=
                (IF missing_peers(connections) = 0
                 THEN 1 ELSE missing_peers(connections))
          /\ \A n \in buckets' \ buckets : n.peer \in last'.connected]_vars

\* a node that has its desired number of peers has opened a connection
C33_OpenedAtDesiredCount ==
    /\ last.op = "handle_peer_list_resp"
    /\ last.new_peers = 1
    /\ Cardinality(get_peer_stats(connections, "Node")) >= config.desired_nodes_count
    /\ config.desired_nodes_count = 1

\* ------------------------------------------------------------------------
\* check_peer_states, update_peer_states and update_peer_list, step by step
\* ------------------------------------------------------------------------
\* the connections a direct message to id is queued on
connections_of(conns, id) ==
    {t \in DOMAIN conns : is_post_handshake(conns[t]) /\ conns[t].remote_id = id}

\* C34: check_peer_states acts on the highest-priority peer of the list only.
\* A Pending peer, taken only when no peer is CatchingUp, is sent a
\* CatchUpStatus message, becomes CatchingUp and catch_up_stamp is the current
\* time; an UpToDate peer, taken only when every peer is UpToDate, starts the
\* baker; a CatchingUp peer whose time has not elapsed changes nothing, and
\* neither does an empty list
C34_CheckPeerStates ==
    [][last'.op = "check_peer_states" =>
          /\ last'.id = None =>
                /\ router.peers = <<>>
                /\ UNCHANGED <<connections, router>>
                /\ ~last'.start_baker
          /\ last'.id # None =>
                /\ last'.id \in DOMAIN router.peers
                /\ router.peers[last'.id] = last'.status
          /\ last'.status = "Pending" =>
                /\ ~is_catching_up(router.peers)
                /\ router'.peers = [router.peers EXCEPT ![last'.id] = "CatchingUp"]
                /\ router'.catch_up_stamp = now
                /\ \A t \in DOMAIN connections :
                      connections'[t] =
                          IF t \in connections_of(connections, last'.id)
                          THEN async_send(connections[t], Packet(last'.id, {}, 1))
                          ELSE connections[t]
                /\ ~last'.start_baker
          /\ last'.status = "UpToDate" =>
                /\ \A id \in DOMAIN router.peers : router.peers[id] = "UpToDate"
                /\ last'.start_baker
                /\ UNCHANGED <<connections, router>>
          /\ (last'.status = "CatchingUp" /\ ~last'.timed_out) =>
                /\ UNCHANGED <<connections, router>>
                /\ ~last'.start_baker]_vars

\* a Pending peer has been sent the catch-up request after the clock moved
C34_Witness ==
    /\ last.op = "check_peer_states"
    /\ last.status = "Pending"
    /\ router.peers[last.id] = "CatchingUp"
    /\ router.catch_up_stamp = now
    /\ now > 0
    /\ \E t \in connections_of(connections, last.id) :
          connections[t].pending_messages # <<>>

\* the messages update_peer_states is called for
PacketTypes == {"CatchUpStatus", "Block", "FinalizationRecord", "Transaction"}
ConsensusMessages ==
    [source_peer : P2PNodeIds, variant : PacketTypes,
     distribution_mode : {"Direct", "Broadcast"}]

\* the catch-up lists of up to two peers
PeerLists2 ==
    UNION {[ids -> PeerStatuses] : ids \in SUBSET P2PNodeIds}

\* update_peer_states for a message and a result of consensus, the result
\* given by the answers of is_successful, is_pending and == ContinueCatchUp
UpdatePeerStates(request, successful, pending, continue_catch_up) ==
    /\ router' = [router EXCEPT
                     !.peers = update_peer_states_by(@, request, successful, pending,
                                                     continue_catch_up)]
    /\ last' = [op |-> "update_peer_states", request |-> request,
                successful |-> successful, pending |-> pending,
                continue_catch_up |-> continue_catch_up]
    /\ UNCHANGED <<table_vars, stream_vars, poll, directory_vars>>

InitPeerStates ==
    /\ connections = <<>>
    /\ next_id = 1
    /\ kvs = {}
    /\ config = Config("Node", 100, MaxToken)
    /\ last = [op |-> "new"]
    /\ StreamInit
    /\ poll = NewPoll
    /\ DirectoryInit
    /\ \E peers \in PeerLists2 : router = [NewRouter EXCEPT !.peers = peers]

\* a result is ContinueCatchUp or one of the other responses, which may be
\* successful, and pending
NextPeerStates ==
    \E request \in ConsensusMessages, successful \in BOOLEAN, pending \in BOOLEAN,
       continue_catch_up \in BOOLEAN :
        /\ continue_catch_up => (~successful /\ ~pending)
        /\ UpdatePeerStates(request, successful, pending, continue_catch_up)

SpecPeerStates == InitPeerStates /\ [][NextPeerStates]_vars

\* the list with the source at the given status, added when it was not there
with_source(peers, source_peer, status) ==
    [id \in DOMAIN peers \cup {source_peer} |->
        IF id = source_peer THEN status ELSE peers[id]]

\* the list with every UpToDate peer set to Pending
without_up_to_date(peers) ==
    [id \in DOMAIN peers |-> IF peers[id] = "UpToDate" THEN "Pending" ELSE peers[id]]

\* C35: update_peer_states changes the list exactly as follows. CatchUpStatus:
\* a successful result marks the source UpToDate, otherwise a pending result
\* marks it Pending, otherwise a continue-catch-up result turns an UpToDate
\* status of the source into Pending. Block or FinalizationRecord: received
\* directly with a successful result every UpToDate peer becomes Pending;
\* received as a broadcast with a pending result the source becomes Pending.
\* Every other combination leaves the list as it was
C35_UpdatePeerStates ==
    [][last'.op = "update_peer_states" =>
          LET request == last'.request
              source == request.source_peer
              peers == router.peers
          IN  router'.peers =
                IF request.variant = "CatchUpStatus" /\ last'.successful
                THEN with_source(peers, source, "UpToDate")
                ELSE IF request.variant = "CatchUpStatus" /\ last'.pending
                THEN with_source(peers, source, "Pending")
                ELSE IF /\ request.variant = "CatchUpStatus"
                        /\ last'.continue_catch_up
                        /\ source \in DOMAIN peers
                        /\ peers[source] = "UpToDate"
                THEN with_source(peers, source, "Pending")
                ELSE IF /\ request.variant \in {"Block", "FinalizationRecord"}
                        /\ request.distribution_mode = "Direct"
                        /\ last'.successful
                THEN without_up_to_date(peers)
                ELSE IF /\ request.variant \in {"Block", "FinalizationRecord"}
                        /\ request.distribution_mode = "Broadcast"
                        /\ last'.pending
                THEN with_source(peers, source, "Pending")
                ELSE peers]_vars

\* a continue-catch-up result has reset the source and left the other
\* UpToDate peer alone
C35_Witness ==
    /\ last.op = "update_peer_states"
    /\ last.request.variant = "CatchUpStatus"
    /\ last.continue_catch_up
    /\ last.request.source_peer \in DOMAIN router.peers
    /\ router.peers[last.request.source_peer] = "Pending"
    /\ \E id \in DOMAIN router.peers : router.peers[id] = "UpToDate"

\* a pending result that is not successful has marked the source of a
\* CatchUpStatus message Pending
C35_PendingWitness ==
    /\ last.op = "update_peer_states"
    /\ last.request.variant = "CatchUpStatus"
    /\ last.pending /\ ~last.successful
    /\ router.peers[last.request.source_peer] = "Pending"

\* ------------------------------------------------------------------------
\* update_peer_list against a connection table that changes
\* ------------------------------------------------------------------------
\* P2PNode::remove_connection called for a connection that closed
RemoveConnection(token) ==
    /\ token \in DOMAIN connections
    /\ connections' = remove_connection(connections, token)
    /\ last' = [op |-> "remove_connection", token |-> token]
    /\ UNCHANGED <<next_id, kvs, config>>
    /\ UNCHANGED off_table_vars

\* the tokens of the connections in the tables that are reconciled
ReconcileTokens == {1, 2}

\* up to two connections of any kind and a catch-up list of any peers
InitReconcile ==
    /\ \E tokens \in SUBSET ReconcileTokens :
       \E kinds \in [tokens -> ConnectionKinds] :
          /\ connections = [t \in tokens |-> EstablishedConnection(t, kinds[t])]
          /\ next_id = NextIdAfter(tokens)
    /\ kvs = {}
    /\ config = Config("Node", 100, MaxToken)
    /\ last = [op |-> "new"]
    /\ StreamInit
    /\ poll = NewPoll
    /\ DirectoryInit
    /\ \E peers \in PeerLists2 : router = [NewRouter EXCEPT !.peers = peers]

NextReconcile ==
    \/ UpdatePeerList
    \/ \E token \in DOMAIN connections, id \in P2PNodeIds :
          RecvHandshakeResp(token, id, 1, {})
    \/ \E token \in DOMAIN connections : RemoveConnection(token)

SpecReconcile == InitReconcile /\ [][NextReconcile]_vars

\* C36: after update_peer_list the peers of the catch-up list are the remote
\* ids of the post-handshake connections to Node peers: peers without such a
\* connection are gone, newly connected peers are Pending, and the peers that
\* stay keep their status
C36_ListFollowsConnections ==
    [][last'.op = "update_peer_list" =>
          /\ DOMAIN router'.peers =
                {connections[t].remote_id :
                    t \in {u \in DOMAIN connections :
                              /\ connections[u].status = "PostHandshake"
                              /\ connections[u].peer_type = "Node"}}
          /\ \A id \in DOMAIN router'.peers :
                router'.peers[id] =
                    IF id \in DOMAIN router.peers THEN router.peers[id] ELSE "Pending"]_vars

\* a reconciliation has dropped a peer and added another
C36_Witness ==
    /\ last.op = "update_peer_list"
    /\ last.dropped # {}
    /\ last.added # {}
    /\ \A id \in last.added : router.peers[id] = "Pending"

\* a reconciliation has kept a peer that is catching up and dropped the other
C36_KeptWitness ==
    /\ last.op = "update_peer_list"
    /\ last.dropped # {}
    /\ \E id \in DOMAIN router.peers : router.peers[id] = "CatchingUp"

\* ------------------------------------------------------------------------
\* TlsServerPrivate: the shared list of networks (p2p/tls_server_private.rs)
\* ------------------------------------------------------------------------
\* the network ids the server is added to and removed from
ServerNetworks == {1, 2, 3}
\* the lists TlsServerPrivate::new is given
ServerNetworkLists ==
    {<<>>} \cup {<<a>> : a \in ServerNetworks}
           \cup {<<a, b>> : a \in ServerNetworks, b \in ServerNetworks}
           \cup {<<a, b, c>> : a \in ServerNetworks, b \in ServerNetworks,
                              c \in ServerNetworks}

\* Vec::retain with the closure |x| x == network_id
remove_network(networks, network_id) ==
    SelectSeq(networks, LAMBDA x : x = network_id)

\* add_network: push unless the list contains the id
add_network(networks, network_id) ==
    IF \E i \in DOMAIN networks : networks[i] = network_id
    THEN networks
    ELSE Append(networks, network_id)

RemoveNetwork(network_id) ==
    /\ config' = [config EXCEPT !.networks = remove_network(@, network_id)]
    /\ last' = [op |-> "remove_network", network_id |-> network_id]
    /\ UNCHANGED <<connections, next_id, kvs>>
    /\ UNCHANGED off_table_vars

AddNetwork(network_id) ==
    /\ config' = [config EXCEPT !.networks = add_network(@, network_id)]
    /\ last' = [op |-> "add_network", network_id |-> network_id]
    /\ UNCHANGED <<connections, next_id, kvs>>
    /\ UNCHANGED off_table_vars

\* TlsServerPrivate::new(networks, ..): the list is the one of the configuration
InitNetworkList ==
    /\ connections = <<>>
    /\ next_id = 1
    /\ kvs = {}
    /\ \E networks \in ServerNetworkLists :
          config = Config("Node", 100, MaxToken) @@ [networks |-> networks]
    /\ last = [op |-> "new"]
    /\ OffTableInit

NextNetworkList ==
    \/ \E network_id \in ServerNetworks : RemoveNetwork(network_id)
    \/ \E network_id \in ServerNetworks : AddNetwork(network_id)

SpecNetworkList == InitNetworkList /\ [][NextNetworkList]_vars

\* the networks of a list
networks_of(networks) == {networks[i] : i \in DOMAIN networks}

\* C37: after remove_network(n), n is not in the shared list and every other
\* network that was in the list is still in it
C37_RemoveNetworkRemovesOnlyIt ==
    [][last'.op = "remove_network" =>
          /\ last'.network_id \notin networks_of(config'.networks)
          /\ \A n \in networks_of(config.networks) \ {last'.network_id} :
                n \in networks_of(config'.networks)]_vars

\* what remove_network leaves: the entries equal to n, and nothing else
C37_RemoveNetworkKeepsOnlyIt ==
    [][last'.op = "remove_network" =>
          networks_of(config'.networks) =
              networks_of(config.networks) \cap {last'.network_id}]_vars

\* remove_network has left the removed network in the list and dropped another
C37_OtherNetworkGone ==
    /\ last.op = "remove_network"
    /\ networks_of(config.networks) = {last.network_id}

\* ------------------------------------------------------------------------
\* The lock of the connection table and the low_level locks of the
\* connections. In this specification poll holds the threads of the node:
\* where each one is, the connection it works on, and who holds which lock
\* ------------------------------------------------------------------------
\* the rayon workers of process_network_events
Workers == {"worker1", "worker2"}
\* a thread outside the poll loop that closes connections (check_peer_states
\* of the consensus thread, ban_node of the RPC server)
Closers == {"consensus"}
Threads == Workers \cup Closers
LockTokens == {1, 2}

Free == "free"
Poisoned == "poisoned"

table_is_free == poll.table.writer = Free /\ poll.table.readers = {}

\* the locks a thread gives back when it returns from the closure or from
\* remove_connection
released(th) ==
    [poll EXCEPT !.pc[th] = "idle",
                 !.token[th] = 1,
                 !.addr[th] = <<2, 1>>,
                 !.table.writer = IF @ = th THEN Free ELSE @,
                 !.table.readers = @ \ {th},
                 !.low_level = [t \in DOMAIN @ |-> IF @[t] = th THEN Free ELSE @[t]]]

\* process_network_events: a worker is handed one connection of the snapshot
ProcessConnection(th, token) ==
    /\ th \in Workers
    /\ poll.pc[th] = "idle"
    /\ token \in DOMAIN connections
    /\ \A other \in Workers \ {th} :
          poll.pc[other] = "idle" \/ poll.token[other] # token
    /\ poll' = [poll EXCEPT !.pc[th] = "low_level_wanted", !.token[th] = token]
    /\ last' = [op |-> "process_network_events"]
    /\ UNCHANGED <<table_vars, stream_vars, router, directory_vars>>

\* write_or_die!(conn.low_level) at the head of the closure
LockLowLevel(th) ==
    /\ poll.pc[th] = "low_level_wanted"
    /\ poll.low_level[poll.token[th]] = Free
    /\ poll' = [poll EXCEPT !.pc[th] = "read_stream",
                            !.low_level[poll.token[th]] = th]
    /\ last' = [op |-> "lock_low_level"]
    /\ UNCHANGED <<table_vars, stream_vars, router, directory_vars>>

\* read_stream with nothing to handle, or with a message whose handler takes
\* no lock: the closure returns and the guard is dropped
ReadNothing(th) ==
    /\ poll.pc[th] = "read_stream"
    /\ poll' = released(th)
    /\ last' = [op |-> "read_stream", message |-> "None"]
    /\ UNCHANGED <<table_vars, stream_vars, router, directory_vars>>

\* read_stream hands a Handshake request of a banned id to
\* handle_handshake_req, which calls remove_connection(self.token)
ReadBannedHandshake(th, id) ==
    /\ poll.pc[th] = "read_stream"
    /\ is_banned(ById(id))
    /\ poll' = [poll EXCEPT !.pc[th] = "remove_table_wanted"]
    /\ last' = [op |-> "read_stream", message |-> "Handshake"]
    /\ UNCHANGED <<table_vars, stream_vars, router, directory_vars>>

\* read_stream hands a PeerList response to handle_peer_list_resp, which
\* calls get_peer_stats and connect
ReadPeerList(th) ==
    /\ poll.pc[th] = "read_stream"
    /\ poll' = [poll EXCEPT !.pc[th] = "connect_table_wanted"]
    /\ last' = [op |-> "read_stream", message |-> "PeerList"]
    /\ UNCHANGED <<table_vars, stream_vars, router, directory_vars>>

\* read_or_die!(self.connections()) of get_peer_stats and connect: the checks
\* are made and the read lock is given back
ConnectChecks(th, addr) ==
    /\ poll.pc[th] = "connect_table_wanted"
    /\ poll.table.writer = Free
    /\ IF connect_rejected(connections, "Node", addr, None, TRUE)
          \/ next_id > MaxPeerListToken
       THEN poll' = released(th)
       ELSE poll' = [poll EXCEPT !.pc[th] = "add_table_wanted", !.addr[th] = addr]
    /\ last' = [op |-> "connect"]
    /\ UNCHANGED <<table_vars, stream_vars, router, directory_vars>>

\* add_connection: write_or_die!(self.connections()).insert, after which the
\* handler and the closure return
ConnectAdds(th) ==
    /\ poll.pc[th] = "add_table_wanted"
    /\ table_is_free
    /\ connections' = add_connection(connections,
                          NewConnection(next_id, poll.addr[th], "Node"))
    /\ next_id' = next_id + 1
    /\ poll' = released(th)
    /\ last' = [op |-> "add_connection"]
    /\ UNCHANGED <<kvs, config, stream_vars, router, directory_vars>>

\* a thread outside the poll loop calls remove_connection(token)
CallRemoveConnection(th, token) ==
    /\ th \in Closers
    /\ poll.pc[th] = "idle"
    /\ token \in DOMAIN connections
    /\ poll' = [poll EXCEPT !.pc[th] = "remove_table_wanted", !.token[th] = token]
    /\ last' = [op |-> "remove_connection"]
    /\ UNCHANGED <<table_vars, stream_vars, router, directory_vars>>

\* remove_connection: write_or_die!(self.connections()).remove(&token); the
\* guard lives to the end of the if let, so the table stays locked while the
\* low_level lock is requested
RemoveLocksTable(th) ==
    /\ poll.pc[th] = "remove_table_wanted"
    /\ table_is_free
    /\ connections' = remove_connection(connections, poll.token[th])
    /\ IF poll.token[th] \in DOMAIN connections
       THEN poll' = [poll EXCEPT !.pc[th] = "remove_low_level_wanted",
                                 !.table.writer = th]
       ELSE poll' = released(th)
    /\ last' = [op |-> "remove_connection"]
    /\ UNCHANGED <<next_id, kvs, config, stream_vars, router, directory_vars>>

\* remove_connection: write_or_die!(conn.low_level).conn_ref = None, then
\* both guards are dropped and the caller returns
RemoveLocksLowLevel(th) ==
    /\ poll.pc[th] = "remove_low_level_wanted"
    /\ poll.low_level[poll.token[th]] = Free
    /\ poll' = released(th)
    /\ last' = [op |-> "remove_connection"]
    /\ UNCHANGED <<table_vars, stream_vars, router, directory_vars>>

\* RwLock::write on a lock the thread holds either blocks for ever, which is
\* no step, or panics: the thread is gone and its locks are poisoned
RelockPanics(th) ==
    /\ poll.pc[th] = "remove_low_level_wanted"
    /\ poll.low_level[poll.token[th]] = th
    /\ poll' = [poll EXCEPT
                   !.pc[th] = "panicked",
                   !.table.writer = Poisoned,
                   !.low_level[poll.token[th]] = Poisoned]
    /\ last' = [op |-> "panic"]
    /\ UNCHANGED <<table_vars, stream_vars, router, directory_vars>>

\* two post-handshake connections, the id 1 banned, every thread idle and
\* every lock free
InitLocks ==
    /\ connections = [t \in LockTokens |->
                         EstablishedConnection(t, [status |-> "PostHandshake",
                                                   peer_type |-> "Node",
                                                   remote_id |-> t,
                                                   networks |-> {1}])]
    /\ next_id = 3
    /\ kvs = {serial(ById(1))}
    /\ config = Config("Node", 100, 3)
    /\ last = [op |-> "new"]
    /\ StreamInit
    /\ router = NewRouter
    /\ DirectoryInit
    /\ poll = [pc |-> [th \in Threads |-> "idle"],
               token |-> [th \in Threads |-> 1],
               addr |-> [th \in Threads |-> <<2, 1>>],
               table |-> [writer |-> Free, readers |-> {}],
               low_level |-> [t \in 1..MaxPeerListToken |-> Free]]

NextLocks ==
    \/ \E th \in Workers, token \in LockTokens : ProcessConnection(th, token)
    \/ \E th \in Threads : LockLowLevel(th)
    \/ \E th \in Threads : ReadNothing(th)
    \/ \E th \in Threads, id \in P2PNodeIds : ReadBannedHandshake(th, id)
    \/ \E th \in Threads : ReadPeerList(th)
    \/ \E th \in Threads, addr \in {<<2, 1>>, <<2, 2>>} : ConnectChecks(th, addr)
    \/ \E th \in Threads : ConnectAdds(th)
    \/ \E th \in Closers, token \in LockTokens : CallRemoveConnection(th, token)
    \/ \E th \in Threads : RemoveLocksTable(th)
    \/ \E th \in Threads : RemoveLocksLowLevel(th)
    \/ \E th \in Threads : RelockPanics(th)

SpecLocks == InitLocks /\ [][NextLocks]_vars

\* a thread waits for the lock of the connection table
waits_for_table(th) ==
    poll.pc[th] \in {"remove_table_wanted", "connect_table_wanted", "add_table_wanted"}

\* C38: no execution deadlocks on the lock of the connection table and the
\* low_level locks: a thread never requests the low_level write lock of a
\* connection whose low_level lock it holds, and a thread that holds the
\* table's write lock inside remove_connection never waits for a low_level
\* lock whose holder waits for the connection table
C38_NoLockDeadlock ==
    /\ \A th \in Threads :
          poll.pc[th] = "remove_low_level_wanted"
              => poll.low_level[poll.token[th]] # th
    /\ \A th \in Threads, holder \in Threads :
          (/\ poll.pc[th] = "remove_low_level_wanted"
           /\ poll.table.writer = th
           /\ poll.low_level[poll.token[th]] = holder
           /\ holder # th)
              => ~waits_for_table(holder)

\* the handler of a banned Handshake waits for the low_level lock that its own
\* thread took in process_network_events
C38_SelfDeadlock ==
    \E th \in Workers :
        /\ poll.pc[th] = "remove_low_level_wanted"
        /\ poll.table.writer = th
        /\ poll.low_level[poll.token[th]] = th

\* remove_connection holds the table and waits for a low_level lock whose
\* holder waits for the table inside connect
C38_CrossDeadlock ==
    \E th \in Closers, holder \in Workers :
        /\ poll.pc[th] = "remove_low_level_wanted"
        /\ poll.table.writer = th
        /\ poll.low_level[poll.token[th]] = holder
        /\ poll.pc[holder] = "connect_table_wanted"

C39_BothPassedChecks ==
    \E th, other \in Workers :
        /\ th # other
        /\ poll.pc[th] = "add_table_wanted"
        /\ poll.pc[other] = "add_table_wanted"
        /\ poll.addr[th] = poll.addr[other]

\* ------------------------------------------------------------------------
\* The catch-up list from its construction: reconciliation, checks and the
\* results of consensus in any order
\* ------------------------------------------------------------------------
\* a node with two post-handshake Node peers and the empty list of
\* PeerList::default
InitCatchUpStates ==
    /\ connections = [t \in ReconcileTokens |->
                         EstablishedConnection(t, [status |-> "PostHandshake",
                                                   peer_type |-> "Node",
                                                   remote_id |-> t,
                                                   networks |-> {1}])]
    /\ next_id = 3
    /\ kvs = {}
    /\ config = Config("Node", 100, 3)
    /\ last = [op |-> "new"]
    /\ StreamInit
    /\ poll = NewPoll
    /\ DirectoryInit
    /\ router = NewRouter

NextCatchUpStates ==
    \/ CheckPeerStates
    \/ UpdatePeerList
    \/ \E request \in ConsensusMessages, successful \in BOOLEAN, pending \in BOOLEAN,
          continue_catch_up \in BOOLEAN :
            /\ request.variant \in {"CatchUpStatus", "Block"}
            /\ continue_catch_up => (~successful /\ ~pending)
            /\ UpdatePeerStates(request, successful, pending, continue_catch_up)
    \/ \E token \in DOMAIN connections : RemoveConnection(token)
    \/ \E token \in DOMAIN connections : send_pending_messages(token)
    \/ CatchUpTick

SpecCatchUpStates == InitCatchUpStates /\ [][NextCatchUpStates]_vars

\* the peers of the list that are catching up
catching_up_peers(peers) == {id \in DOMAIN peers : peers[id] = "CatchingUp"}

\* C40: in every reachable state of the catch-up list at most one peer is
\* CatchingUp, and check_peer_states sends no CatchUpStatus request while a
\* peer is CatchingUp
C40_OnePeerCatchingUp ==
    /\ [](Cardinality(catching_up_peers(router.peers)) <= 1)
    /\ [][(last'.op = "check_peer_states" /\ last'.status = "Pending")
            => catching_up_peers(router.peers) = {}]_vars
    /\ [][catching_up_peers(router'.peers) \subseteq
              catching_up_peers(router.peers) \cup
                  (IF last'.op = "check_peer_states" /\ catching_up_peers(router.peers) = {}
                   THEN {last'.id} ELSE {})]_vars

\* a second catch-up request has gone out after the first peer answered
C40_Witness ==
    /\ last.op = "check_peer_states"
    /\ last.status = "Pending"
    /\ catching_up_peers(router.peers) = {last.id}
    /\ \E id \in DOMAIN router.peers : router.peers[id] = "UpToDate"
    /\ \E t \in DOMAIN connections : connections[t].pending_messages # <<>>

====
